---- MODULE Spec2Model ----
(***************************************************************************)
(* A model of the structured logger of karrick/gologs: the Logger with its *)
(* level gate and tracing flag (logger.go), the Event scratch buffer and   *)
(* its mutex (event.go), the serialising output (output.Write) and the     *)
(* Intermediate builder (intermediate.go).                                  *)
(*                                                                         *)
(* Byte strings are sequences of tokens.  A token is a pair <<kind, v>>;   *)
(* the structural bytes '{', ',', '}' and '\n' are tokens of their own, so *)
(* that truncation to the first byte and the overwrite of the last byte    *)
(* are modelled as the code performs them.                                 *)
(***************************************************************************)
EXTENDS Integers, Sequences, FiniteSets, TLC

\* ------------------------------------------------------------------ bounds
\* longest chain of property calls between an accessor and Msg
MaxProps == 1
\* most properties a branch holds
MaxBranch == 2
\* largest count a failing Write of the io.Writer reports
MaxWrite == 3
\* the longest chain of wrapper Loggers on a Base
MaxChain == 3
\* the most spare cells append leaves behind the bytes it has written
MaxSpare == 2
MaxLevel == 5

\* ------------------------------------------------------------------ levels
Debug == 0
Verbose == 1
Info == 2
Warning == 3
Error == 4
Levels == {Debug, Verbose, Info, Warning, Error}

\* the accessors of Logger; Log has no level
Accessors == {"log", "debug", "verbose", "info", "warning", "error"}

\* the level an event created by an accessor is gated with
AccLevel(a) ==
  CASE a = "debug" -> Debug
    [] a = "verbose" -> Verbose
    [] a = "info" -> Info
    [] a = "warning" -> Warning
    [] OTHER -> Error

\* ------------------------------------------------------------------ bytes
OPEN == <<"byte", "{">>
SEP == <<"byte", ",">>
CLOSE == <<"byte", "}">>
NL == <<"byte", "\n">>

\* "name":value, as the append helpers leave it in a buffer
Field(kind, v) == << <<kind, v>>, SEP >>

\* the bytes each event method appends for its level
LevelBytes(a) == Field("level", a)

\* ------------------------------------------------------------------ objects
Threads == {"t1", "t2"}
Loggers == {"root", "child"}

\* the Loggers made by With()...Logger(): child from root, grand from child
Derived == {"child", "grand"}
AllLoggers == Loggers \cup Derived
Parent(c) == IF c = "child" THEN "root" ELSE "child"
Child(p) == IF p = "root" THEN "child" ELSE "grand"

\* no Intermediate in hand
NoIL == [from |-> "none"]

\* the Writer made by NewWriter has an Event, a level and a branch of its
\* own, as a Logger has
Objects == AllLoggers \cup {"writer"}

\* the io.Writers a caller may hand to New and SetWriter
Sinks == {"w1", "w2"}

\* the arguments of Writer.Write
Bufs == {"", "x", "xy"}
BufLen(b) == CASE b = "" -> 0 [] b = "x" -> 1 [] OTHER -> 2

\* time formatters a caller may install: none, one that appends the time
\* property, one that panics
TimeFormatters == {"nil", "stamp", "panic"}

\* what Write of the caller's io.Writer may do
SinkOutcomes == {"ok", "err", "panic"}

Messages == {"", "m"}

VARIABLES
  level,      \* Logger.level, per Logger
  tracing,    \* Logger.tracing
  branch,     \* Logger.branch
  scratch,    \* Logger.event.scratch
  timeFormatter, \* Logger.event.timeFormatter
  emutex,     \* Logger.event.mutex: TRUE when locked
  omutex,     \* output.mutex: TRUE when locked
  inflight,   \* calls of the io.Writer's Write in progress: [thread, buf, io.Writer]
  pc,         \* where each thread is in its current call
  lg,         \* the Logger the thread's call is on
  acc,        \* the accessor the thread called
  ev,         \* the *Event the accessor returned: "nil" or "open"
  sub,        \* the thread is writing the substitute record of formatTimePanics
  nprops,     \* property calls made in the chain so far
  msg,        \* argument of Msg
  ret,        \* how the last call ended: "none", "nil", "err", "panic"
  pval,       \* the value of the panic that left the call, if any
  nwrites,    \* Write calls made on the io.Writer during the call
  nunlocks,   \* Unlock calls made on the Event mutex during the call
  nlocks,     \* Lock calls made on the Event mutex during the call
  nformats,   \* time formatter invocations during the call
  seen,       \* the level the accessor's gate check loaded
  out,        \* what Write of the io.Writer did in the call: "none" before it ended
  il,         \* the *Intermediate the thread holds between With() and Logger()
  sink,       \* output.w: the io.Writer the shared output writes to
  emitLevel,  \* Writer.emitLevel, as the name of its level
  sinkn,      \* the count the io.Writer returned with its error to the
              \* thread's Writer.Write; -1 when there is none
  wn,         \* the count the thread's Writer.Write returned; -1 before
  fatal       \* the runtime aborted: unlock of an unlocked mutex

\* the wrapper-chain variant (lib.go): a Base with Filter, Prefixer and Tracer
\* Loggers composed on top of it
VARIABLES
  chain,      \* the wrappers on the Base, nearest the Base first: [kind, level]
  template,   \* what the template of the Base holds besides the message
  cev         \* the event of the call in progress

cvars == <<chain, template, cev>>

\* the branch-per-Logger variant (NewBranchWithString): the branch slices and
\* the arrays behind them
VARIABLES
  heap,       \* the arrays the branch slices point into, each as long as its capacity
  bref,       \* Logger.event.branch: [arr, len], arr = 0 for the nil slice
  expect      \* the branch each Logger was given when it was derived

bvars == <<heap, bref, expect>>

xvars == <<cvars, bvars>>

vars == <<xvars, level, tracing, branch, scratch, timeFormatter, emutex, omutex,
          inflight, pc, lg, acc, ev, sub, nprops, msg, ret, pval,
          nwrites, nunlocks, nlocks, nformats, seen, out, il, sink,
          emitLevel, wn, sinkn, fatal>>

shared == <<level, tracing, branch, scratch, timeFormatter, emutex, omutex,
            inflight, fatal>>
wvars == <<sink, emitLevel, wn, sinkn>>
locals == <<pc, lg, acc, ev, sub, nprops, msg, ret, pval, nwrites,
            nunlocks, nlocks, nformats, seen, out>>

\* ------------------------------------------------------------------ helpers
\* mutant: the gate forgets the tracing flag
GateIgnoresTracing(a, lvl, tr) ==
  \/ a \in {"log", "error"}
  \/ lvl <= AccLevel(a)

\* mutant: Log is admitted by the tracing flag only
GateFiltersLog(a, lvl, tr) ==
  \/ a = "error"
  \/ tr
  \/ a # "log" /\ lvl <= AccLevel(a)

\* Logger.Debug .. Logger.Error: the gate in front of event.debug .. event.error;
\* Log and Error have none
Gate(a, lvl, tr) ==
  \/ a \in {"log", "error"}
  \/ tr
  \/ lvl <= AccLevel(a)

\* mutant: the formatter is run a second time on its own result
FormatTimeTwice(f, buf) ==
  IF f = "stamp" THEN buf \o Field("time", "now") \o Field("time", "now") ELSE buf

\* a time formatter that does not panic, applied to buf (TimeUnix and its kin)
FormatTime(f, buf) == IF f = "stamp" THEN buf \o Field("time", "now") ELSE buf

\* event.scratch[:1]
Truncate(buf) == SubSeq(buf, 1, 1)

\* mutant: the branch is appended in front of the level label
AppendHeadBranchFirst(buf, a, br) ==
  (buf \o br) \o (IF a = "log" THEN <<>> ELSE LevelBytes(a))

\* event.log, event.debug .. event.error after the time formatter returned:
\* the level label, but for log, and then the branch
AppendHead(buf, a, br) ==
  (IF a = "log" THEN buf ELSE buf \o LevelBytes(a)) \o br

\* Event.Err with a non-nil error
AppendErr(buf, e) == buf \o Field("error", e)

\* mutant: Msg with an empty message closes the record after the last
\* comma and leaves the comma in
AppendMsgKeepsComma(buf, s) ==
  IF s # ""
    THEN buf \o << <<"message", s>>, CLOSE, NL >>
    ELSE buf \o <<CLOSE, NL>>

\* the body of Event.Msg in front of the write
AppendMsg(buf, s) ==
  IF s # ""
    THEN buf \o << <<"message", s>>, CLOSE, NL >>
    ELSE [buf EXCEPT ![Len(buf)] = CLOSE] \o <<NL>>

\* mutant: the substitute record is built as a record of Error()
SubstituteRecordLabelled(buf) ==
  AppendMsg(AppendErr(Truncate(buf) \o LevelBytes("error"), "time-formatter-boom!"),
            "panic when time formatter invoked")

\* mutant: the recovered panic is not added to the substitute record
SubstituteRecordNoErr(buf) ==
  AppendMsg(Truncate(buf), "panic when time formatter invoked")

\* the record formatTimePanics builds when it recovers from a panic
SubstituteRecord(buf) ==
  AppendMsg(AppendErr(Truncate(buf), "time-formatter-boom!"),
            "panic when time formatter invoked")

\* sync.Mutex.Unlock: unlocking a mutex that is not locked is a fatal error
UnlockFatal(m) == ~m

\* mutant: one mutex serves the Events of all Loggers
EventLockableGlobal(l) == \A k \in DOMAIN emutex : ~emutex[k]

\* mutant: the event methods do not wait for the Event mutex
EventLockableAlways(l) == TRUE

\* event.mutex.Lock() of the event methods returns once the mutex is free
EventLockable(l) == ~emutex[l]

\* mutant: output.Write does not wait for the output mutex
OutputLockableAlways == TRUE

\* o.mutex.Lock() of output.Write returns once the mutex is free
OutputLockable == ~omutex

\* mutant: the event method returns the Event also after a formatter panic
AccessorResultOpen(panicked) == "open"

\* what an event method returns: nil when formatTimePanics reported a panic,
\* the Event otherwise
AccessorResult(panicked) == IF panicked THEN "nil" ELSE "open"

\* ------------------------------------------------------------------ Init
\* root := New(w); child := root.With().String("module", "svc").Tracing(true).Logger();
\* grand := child.With().String("with", "child").Logger();
\* writer := root.NewWriter(Info)
\* the Logger of New and the Loggers derived with NewBranchWithString:
\* p from top, c1 and c2 from p, g from c1
BLoggers == {"top", "p", "c1", "c2", "g"}
BDerived == {"p", "c1", "c2", "g"}
BParent(c) == CASE c = "p" -> "top" [] c = "g" -> "c1" [] OTHER -> "p"
NilSlice == [arr |-> 0, len |-> 0]
FREE == <<"byte", "free">>

\* no call is in progress on the wrapper chain
NoEvent == [st |-> "none", at |-> 0, level |-> 0, lv |-> 0, traced |-> FALSE]

\* mutant: New leaves the level at its zero value
NewLevelZero == Debug

\* New: level: uint32(Warning)
NewLevel == Warning

Init ==
  /\ level = [l \in Objects |-> NewLevel]
  /\ tracing = [l \in Objects |-> l = "child"]
  /\ branch = [l \in Objects |->
       CASE l = "child" -> Field("module", "svc")
         [] l = "grand" -> Field("module", "svc") \o Field("with", "child")
         [] OTHER -> <<>>]
  /\ scratch = [l \in Objects |-> <<OPEN>>]
  /\ timeFormatter = [l \in Objects |-> "nil"]
  /\ emutex = [l \in Objects |-> FALSE]
  /\ omutex = FALSE
  /\ inflight = {}
  /\ pc = [t \in Threads |-> "idle"]
  /\ lg = [t \in Threads |-> "root"]
  /\ acc = [t \in Threads |-> "log"]
  /\ ev = [t \in Threads |-> "nil"]
  /\ sub = [t \in Threads |-> FALSE]
  /\ nprops = [t \in Threads |-> 0]
  /\ msg = [t \in Threads |-> ""]
  /\ ret = [t \in Threads |-> "none"]
  /\ pval = [t \in Threads |-> "none"]
  /\ nwrites = [t \in Threads |-> 0]
  /\ nunlocks = [t \in Threads |-> 0]
  /\ nlocks = [t \in Threads |-> 0]
  /\ nformats = [t \in Threads |-> 0]
  /\ seen = [t \in Threads |-> Debug]
  /\ out = [t \in Threads |-> "none"]
  /\ il = [t \in Threads |-> NoIL]
  /\ sink = "w1"
  /\ emitLevel = "info"
  /\ wn = [t \in Threads |-> -1]
  /\ sinkn = [t \in Threads |-> -1]
  /\ fatal = FALSE
  /\ chain = <<>>
  /\ template = "message"
  /\ cev = NoEvent
  /\ heap = <<>>
  /\ bref = [l \in BLoggers |-> NilSlice]
  /\ expect = [l \in BLoggers |-> <<>>]

\* ------------------------------------------------------------------ actions
\* mutant: SetLevel stores under the Event mutex, as SetTimeFormatter does
SetLevelLocked(t, l, v) ==
  /\ ~fatal
  /\ pc[t] = "idle"
  /\ ~emutex[l]
  /\ level' = [level EXCEPT ![l] = v]
  /\ UNCHANGED <<xvars, wvars, tracing, branch, scratch, timeFormatter, emutex, omutex,
                 inflight, fatal, il, locals>>

\* mutant: the Writer reads the level of the Logger it was made from
SetLevelReachesWriter(t, l, v) ==
  /\ ~fatal
  /\ pc[t] = "idle"
  /\ level' = [level EXCEPT ![l] = v, !["writer"] = v]
  /\ UNCHANGED <<xvars, wvars, tracing, branch, scratch, timeFormatter, emutex, omutex,
                 inflight, fatal, il, locals>>

\* Logger.SetLevel and its shortcuts: an atomic store
SetLevel(t, l, v) ==
  /\ ~fatal
  /\ pc[t] = "idle"
  /\ level' = [level EXCEPT ![l] = v]
  /\ UNCHANGED <<xvars, wvars, tracing, branch, scratch, timeFormatter, emutex, omutex,
                 inflight, fatal, il, locals>>

\* mutant: setTimeFormatter stores the callback without the Event mutex
SetTimeFormatterUnlocked(t, l, f) ==
  /\ ~fatal
  /\ pc[t] = "idle"
  /\ timeFormatter' = [timeFormatter EXCEPT ![l] = f]
  /\ UNCHANGED <<xvars, wvars, level, tracing, branch, scratch, emutex, omutex, inflight,
                 fatal, il, locals>>

\* Logger.SetTimeFormatter: Event.setTimeFormatter under the Event mutex
SetTimeFormatter(t, l, f) ==
  /\ ~fatal
  /\ pc[t] = "idle"
  /\ ~emutex[l]
  /\ timeFormatter' = [timeFormatter EXCEPT ![l] = f]
  /\ UNCHANGED <<xvars, wvars, level, tracing, branch, scratch, emutex, omutex, inflight,
                 fatal, il, locals>>

\* mutant: the accessor locks the Event mutex before the gate check and
\* unlocks it on the filtered return
AccessorLocksFirst(t, l, a) ==
  /\ ~fatal
  /\ pc[t] = "idle"
  /\ ~emutex[l]
  /\ lg' = [lg EXCEPT ![t] = l]
  /\ acc' = [acc EXCEPT ![t] = a]
  /\ seen' = [seen EXCEPT ![t] = IF a \in {"log", "error"} THEN @ ELSE level[l]]
  /\ pc' = [pc EXCEPT ![t] =
       IF a \in {"log", "error"} \/ tracing[l] \/ level[l] <= AccLevel(a)
         THEN "lock" ELSE "chain"]
  /\ nlocks' = [nlocks EXCEPT ![t] =
       IF a \in {"log", "error"} \/ tracing[l] \/ level[l] <= AccLevel(a)
         THEN @ ELSE @ + 1]
  /\ nunlocks' = [nunlocks EXCEPT ![t] =
       IF a \in {"log", "error"} \/ tracing[l] \/ level[l] <= AccLevel(a)
         THEN @ ELSE @ + 1]
  /\ UNCHANGED <<xvars, wvars, shared, il, out, ev, sub, nprops, msg, ret, pval, nwrites,
                 nformats>>

\* Logger.Log, Debug, Verbose, Info, Warning, Error up to the call of the
\* event method: the gate check
Accessor(t, l, a) ==
  /\ ~fatal
  /\ pc[t] = "idle"
  /\ lg' = [lg EXCEPT ![t] = l]
  /\ acc' = [acc EXCEPT ![t] = a]
  /\ seen' = [seen EXCEPT ![t] = IF a \in {"log", "error"} THEN @ ELSE level[l]]
  /\ pc' = [pc EXCEPT ![t] = IF Gate(a, level[l], tracing[l]) THEN "lock" ELSE "chain"]
  /\ UNCHANGED <<xvars, wvars, shared, il, out, ev, sub, nprops, msg, ret, pval, nwrites,
                 nunlocks, nlocks, nformats>>

\* event.log, event.debug .. event.error: lock the Event, run the time
\* formatter, append the level label and the branch.  When the formatter
\* panics formatTimePanics builds the substitute record and calls Msg.
EventOpen(t) ==
  LET l == lg[t]
      f == timeFormatter[l] IN
  /\ ~fatal
  /\ pc[t] = "lock"
  /\ EventLockable(l)
  /\ emutex' = [emutex EXCEPT ![l] = TRUE]
  /\ nlocks' = [nlocks EXCEPT ![t] = @ + 1]
  /\ nformats' = [nformats EXCEPT ![t] = IF f = "nil" THEN @ ELSE @ + 1]
  /\ IF f = "panic"
       THEN /\ scratch' = [scratch EXCEPT ![l] = SubstituteRecord(scratch[l])]
            /\ sub' = [sub EXCEPT ![t] = TRUE]
            /\ pc' = [pc EXCEPT ![t] = "write"]
            /\ ev' = ev
       ELSE /\ scratch' = [scratch EXCEPT ![l] =
                 AppendHead(FormatTime(f, scratch[l]), acc[t], branch[l])]
            /\ sub' = sub
            /\ pc' = [pc EXCEPT ![t] = "chain"]
            /\ ev' = [ev EXCEPT ![t] = AccessorResult(FALSE)]
  /\ UNCHANGED <<xvars, wvars, level, tracing, branch, timeFormatter, omutex, inflight, fatal,
                 lg, acc, nprops, msg, ret, pval, nwrites, nunlocks, seen,
                 out, il>>

\* mutant: the property methods append without the nil check
PropIgnoresNil(t) ==
  /\ ~fatal
  /\ pc[t] = "chain"
  /\ nprops[t] < MaxProps
  /\ nprops' = [nprops EXCEPT ![t] = @ + 1]
  /\ scratch' = [scratch EXCEPT ![lg[t]] = @ \o Field("prop", t)]
  /\ UNCHANGED <<xvars, wvars, level, tracing, branch, timeFormatter, emutex, omutex,
                 inflight, fatal, pc, lg, acc, ev, sub, msg, ret, pval,
                 nwrites, nunlocks, nlocks, nformats, seen, out, il>>

\* Event.Bool, Float, Int, String ..: append one property; nothing on nil
Prop(t) ==
  /\ ~fatal
  /\ pc[t] = "chain"
  /\ nprops[t] < MaxProps
  /\ nprops' = [nprops EXCEPT ![t] = @ + 1]
  /\ scratch' = IF ev[t] = "nil" THEN scratch
                ELSE [scratch EXCEPT ![lg[t]] = @ \o Field("prop", t)]
  /\ UNCHANGED <<xvars, wvars, level, tracing, branch, timeFormatter, emutex, omutex,
                 inflight, fatal, pc, lg, acc, ev, sub, msg, ret, pval,
                 nwrites, nunlocks, nlocks, nformats, seen, out, il>>

\* Event.Stringer on an open Event with a value whose String method panics:
\* the panic leaves Stringer before anything is appended, and the chain with
\* its Msg is never reached
StringerPanic(t) ==
  /\ ~fatal
  /\ pc[t] = "chain"
  /\ ev[t] = "open"
  /\ nprops[t] < MaxProps
  /\ pc' = [pc EXCEPT ![t] = "done"]
  /\ ret' = [ret EXCEPT ![t] = "panic"]
  /\ pval' = [pval EXCEPT ![t] = "stringer"]
  /\ UNCHANGED <<xvars, wvars, shared, il, out, lg, acc, ev, sub, nprops, msg, nwrites,
                 nunlocks, nlocks, nformats, seen>>

\* Event.Msg up to the call of output.Write; on nil it returns nil
Msg(t, s) ==
  /\ ~fatal
  /\ pc[t] = "chain"
  /\ msg' = [msg EXCEPT ![t] = s]
  /\ IF ev[t] = "nil"
       THEN /\ pc' = [pc EXCEPT ![t] = "done"]
            /\ ret' = [ret EXCEPT ![t] = "nil"]
            /\ scratch' = scratch
       ELSE /\ pc' = [pc EXCEPT ![t] = "write"]
            /\ ret' = ret
            /\ scratch' = [scratch EXCEPT ![lg[t]] = AppendMsg(@, s)]
  /\ UNCHANGED <<xvars, wvars, level, tracing, branch, timeFormatter, emutex, omutex,
                 inflight, fatal, lg, acc, ev, sub, nprops, pval,
                 nwrites, nunlocks, nlocks, nformats, seen, out, il>>

\* mutant: SetWriter stores the io.Writer without the output mutex
SetWriterUnlocked(t, w) ==
  /\ ~fatal
  /\ pc[t] = "idle"
  /\ sink' = w
  /\ UNCHANGED <<xvars, level, tracing, branch, scratch, timeFormatter, emutex, omutex,
                 inflight, fatal, il, emitLevel, wn, sinkn, locals>>

\* Logger.SetWriter: output.SetWriter stores the io.Writer under the output
\* mutex
SetWriter(t, w) ==
  /\ ~fatal
  /\ pc[t] = "idle"
  /\ OutputLockable
  /\ sink' = w
  /\ UNCHANGED <<xvars, level, tracing, branch, scratch, timeFormatter, emutex, omutex,
                 inflight, fatal, il, emitLevel, wn, sinkn, locals>>

\* output.Write: lock the output and call Write of the io.Writer
OutputWrite(t) ==
  /\ ~fatal
  /\ pc[t] = "write"
  /\ OutputLockable
  /\ omutex' = TRUE
  /\ inflight' = inflight \cup {<<t, scratch[lg[t]], sink>>}
  /\ nwrites' = [nwrites EXCEPT ![t] = @ + 1]
  /\ pc' = [pc EXCEPT ![t] = "inwrite"]
  /\ UNCHANGED <<xvars, wvars, level, tracing, branch, scratch, timeFormatter, emutex, fatal,
                 lg, acc, ev, sub, nprops, msg, ret, pval, nunlocks, nlocks,
                 nformats, seen, out, il>>

\* mutant: the unlocks and the truncation are not deferred, so a panic of
\* the io.Writer skips them
WriteReturnNoDefer(t, o) ==
  LET l == lg[t]
      p == o = "panic" IN
  /\ ~fatal
  /\ pc[t] = "inwrite"
  /\ inflight' = {w \in inflight : w[1] # t}
  /\ omutex' = (p /\ omutex)
  /\ scratch' = IF p THEN scratch ELSE [scratch EXCEPT ![l] = Truncate(@)]
  /\ fatal' = (~p /\ UnlockFatal(emutex[l]))
  /\ emutex' = IF p THEN emutex ELSE [emutex EXCEPT ![l] = FALSE]
  /\ nunlocks' = [nunlocks EXCEPT ![t] = IF p THEN @ ELSE @ + 1]
  /\ IF sub[t] /\ o # "panic"
       THEN /\ pc' = [pc EXCEPT ![t] = "chain"]
            /\ ev' = [ev EXCEPT ![t] = "nil"]
            /\ ret' = ret
            /\ pval' = pval
       ELSE /\ pc' = [pc EXCEPT ![t] = "done"]
            /\ ret' = [ret EXCEPT ![t] =
                 CASE o = "ok" -> "nil" [] o = "err" -> "err" [] OTHER -> "panic"]
            /\ pval' = [pval EXCEPT ![t] = IF o = "panic" THEN "sink" ELSE "none"]
            /\ ev' = ev
  /\ out' = [out EXCEPT ![t] = o]
  /\ UNCHANGED <<xvars, wvars, level, tracing, branch, timeFormatter, lg, acc, sub,
                 nprops, msg, nwrites, nlocks, nformats, seen, il>>

\* mutant: Msg recovers from the panic of the io.Writer and returns nil
WriteReturnRecovers(t, o) ==
  LET l == lg[t] IN
  /\ ~fatal
  /\ pc[t] = "inwrite"
  /\ inflight' = {w \in inflight : w[1] # t}
  /\ omutex' = FALSE
  /\ scratch' = [scratch EXCEPT ![l] = Truncate(@)]
  /\ fatal' = UnlockFatal(emutex[l])
  /\ emutex' = [emutex EXCEPT ![l] = FALSE]
  /\ nunlocks' = [nunlocks EXCEPT ![t] = @ + 1]
  /\ IF sub[t] /\ o # "panic"
       THEN /\ pc' = [pc EXCEPT ![t] = "chain"]
            /\ ev' = [ev EXCEPT ![t] = AccessorResult(TRUE)]
            /\ ret' = ret
            /\ pval' = pval
       ELSE /\ pc' = [pc EXCEPT ![t] = "done"]
            /\ ret' = [ret EXCEPT ![t] =
                 CASE o = "ok" -> "nil" [] o = "err" -> "err" [] OTHER -> "nil"]
            /\ pval' = [pval EXCEPT ![t] = "none"]
            /\ ev' = ev
  /\ out' = [out EXCEPT ![t] = o]
  /\ UNCHANGED <<xvars, wvars, level, tracing, branch, timeFormatter, lg, acc, sub,
                 nprops, msg, nwrites, nlocks, nformats, seen, il>>

\* mutant: the error of the write of the substitute record ends the call
\* and is returned to the caller
WriteReturnReportsError(t, o) ==
  LET l == lg[t] IN
  /\ ~fatal
  /\ pc[t] = "inwrite"
  /\ inflight' = {w \in inflight : w[1] # t}
  /\ omutex' = FALSE
  /\ scratch' = [scratch EXCEPT ![l] = Truncate(@)]
  /\ fatal' = UnlockFatal(emutex[l])
  /\ emutex' = [emutex EXCEPT ![l] = FALSE]
  /\ nunlocks' = [nunlocks EXCEPT ![t] = @ + 1]
  /\ IF sub[t] /\ o = "ok"
       THEN /\ pc' = [pc EXCEPT ![t] = "chain"]
            /\ ev' = [ev EXCEPT ![t] = AccessorResult(TRUE)]
            /\ ret' = ret
            /\ pval' = pval
       ELSE /\ pc' = [pc EXCEPT ![t] = "done"]
            /\ ret' = [ret EXCEPT ![t] =
                 CASE o = "ok" -> "nil" [] o = "err" -> "err" [] OTHER -> "panic"]
            /\ pval' = [pval EXCEPT ![t] = IF o = "panic" THEN "sink" ELSE "none"]
            /\ ev' = ev
  /\ out' = [out EXCEPT ![t] = o]
  /\ UNCHANGED <<xvars, wvars, level, tracing, branch, timeFormatter, lg, acc, sub,
                 nprops, msg, nwrites, nlocks, nformats, seen, il>>

\* Write of the io.Writer ends with outcome o; the deferred Unlock of
\* output.Write and the deferred truncate-and-Unlock of Event.Msg run, also
\* when it panicked.  Inside formatTimePanics the error of Msg is dropped and
\* the accessor returns nil.
WriteReturn(t, o) ==
  LET l == lg[t] IN
  /\ ~fatal
  /\ pc[t] = "inwrite"
  /\ inflight' = {w \in inflight : w[1] # t}
  /\ omutex' = FALSE
  /\ scratch' = [scratch EXCEPT ![l] = Truncate(@)]
  /\ fatal' = UnlockFatal(emutex[l])
  /\ emutex' = [emutex EXCEPT ![l] = FALSE]
  /\ nunlocks' = [nunlocks EXCEPT ![t] = @ + 1]
  /\ IF sub[t] /\ o # "panic"
       THEN /\ pc' = [pc EXCEPT ![t] = "chain"]
            /\ ev' = [ev EXCEPT ![t] = AccessorResult(TRUE)]
            /\ ret' = ret
            /\ pval' = pval
       ELSE /\ pc' = [pc EXCEPT ![t] = "done"]
            /\ ret' = [ret EXCEPT ![t] =
                 CASE o = "ok" -> "nil" [] o = "err" -> "err" [] OTHER -> "panic"]
            /\ pval' = [pval EXCEPT ![t] = IF o = "panic" THEN "sink" ELSE "none"]
            /\ ev' = ev
  /\ out' = [out EXCEPT ![t] = o]
  /\ UNCHANGED <<xvars, wvars, level, tracing, branch, timeFormatter, lg, acc, sub,
                 nprops, msg, nwrites, nlocks, nformats, seen, il>>

\* the caller has the result of its log call (the error of Msg, or the panic
\* it recovered) and goes on
Return(t) ==
  /\ ~fatal
  /\ pc[t] = "done"
  /\ pc' = [pc EXCEPT ![t] = "idle"]
  /\ lg' = [lg EXCEPT ![t] = "root"]
  /\ acc' = [acc EXCEPT ![t] = "log"]
  /\ ev' = [ev EXCEPT ![t] = "nil"]
  /\ sub' = [sub EXCEPT ![t] = FALSE]
  /\ nprops' = [nprops EXCEPT ![t] = 0]
  /\ msg' = [msg EXCEPT ![t] = ""]
  /\ ret' = [ret EXCEPT ![t] = "none"]
  /\ pval' = [pval EXCEPT ![t] = "none"]
  /\ nwrites' = [nwrites EXCEPT ![t] = 0]
  /\ nunlocks' = [nunlocks EXCEPT ![t] = 0]
  /\ nlocks' = [nlocks EXCEPT ![t] = 0]
  /\ nformats' = [nformats EXCEPT ![t] = 0]
  /\ seen' = [seen EXCEPT ![t] = Debug]
  /\ out' = [out EXCEPT ![t] = "none"]
  /\ UNCHANGED <<xvars, wvars, shared, il>>

\* ------------------------------------------------------------------ derivation
\* Logger.SetTracing: an atomic store of the tracing flag
SetTracing(t, l, b) ==
  /\ ~fatal
  /\ pc[t] = "idle"
  /\ tracing' = [tracing EXCEPT ![l] = b]
  /\ UNCHANGED <<xvars, wvars, level, branch, scratch, timeFormatter, emutex, omutex,
                 inflight, fatal, il, locals>>

\* mutant: the Intermediate takes the parent's level when Logger() is called
IntermediateLevelLive(i) == level[i.from]

\* the level Intermediate.Logger gives the new Logger: the one With() loaded
IntermediateLevel(i) == i.level

\* Logger.With: a new Intermediate with a copy of the branch, the time
\* formatter and the level of log; its tracing field is left at false
With(t, p) ==
  /\ ~fatal
  /\ pc[t] = "idle"
  /\ il[t] = NoIL
  /\ il' = [il EXCEPT ![t] =
       [from |-> p, branch |-> branch[p], timeFormatter |-> timeFormatter[p],
        level |-> level[p], tracing |-> FALSE]]
  /\ UNCHANGED <<xvars, wvars, level, tracing, branch, scratch, timeFormatter, emutex,
                 omutex, inflight, fatal, locals>>

\* mutant: the Intermediate appends in the storage of the parent's branch
IntermediateStringAliased(t) ==
  /\ ~fatal
  /\ il[t] # NoIL
  /\ Len(il[t].branch) < 2 * MaxBranch
  /\ il' = [il EXCEPT ![t].branch = @ \o Field("with", il[t].from)]
  /\ branch' = [branch EXCEPT ![il[t].from] = il'[t].branch]
  /\ UNCHANGED <<xvars, wvars, level, tracing, scratch, timeFormatter, emutex, omutex,
                 inflight, fatal, locals>>

\* Intermediate.Bool, Float, Int, String ..: append one property to the
\* branch of the Intermediate
IntermediateString(t) ==
  /\ ~fatal
  /\ il[t] # NoIL
  /\ Len(il[t].branch) < 2 * MaxBranch
  /\ il' = [il EXCEPT ![t].branch = @ \o Field("with", il[t].from)]
  /\ UNCHANGED <<xvars, wvars, level, tracing, branch, scratch, timeFormatter, emutex,
                 omutex, inflight, fatal, locals>>

\* Intermediate.Tracing(true)
IntermediateTracing(t) ==
  /\ ~fatal
  /\ il[t] # NoIL
  /\ ~il[t].tracing
  /\ il' = [il EXCEPT ![t].tracing = TRUE]
  /\ UNCHANGED <<xvars, wvars, level, tracing, branch, scratch, timeFormatter, emutex,
                 omutex, inflight, fatal, locals>>

\* Intermediate.Logger: a new Logger with a fresh Event and a copy of the
\* Intermediate's branch, with its level and tracing; the caller keeps it
\* in place of the Logger it derived before from the same parent
IntermediateLogger(t) ==
  LET c == Child(il[t].from) IN
  /\ ~fatal
  /\ il[t] # NoIL
  /\ \A u \in Threads : pc[u] # "idle" => lg[u] # c
  /\ \A u \in Threads : il[u] # NoIL => il[u].from # c
  /\ level' = [level EXCEPT ![c] = IntermediateLevel(il[t])]
  /\ tracing' = [tracing EXCEPT ![c] = il[t].tracing]
  /\ branch' = [branch EXCEPT ![c] = il[t].branch]
  /\ scratch' = [scratch EXCEPT ![c] = <<OPEN>>]
  /\ timeFormatter' = [timeFormatter EXCEPT ![c] = il[t].timeFormatter]
  /\ emutex' = [emutex EXCEPT ![c] = FALSE]
  /\ il' = [il EXCEPT ![t] = NoIL]
  /\ UNCHANGED <<xvars, wvars, omutex, inflight, fatal, locals>>

\* ------------------------------------------------------------------ Writer
\* Logger.NewWriter: a Writer with a fresh Event, the time formatter, the
\* level and a copy of the branch of log, and the level it emits at; the
\* caller keeps it in place of the Writer it had
NewWriter(t, l, e) ==
  /\ ~fatal
  /\ pc[t] = "idle"
  /\ \A u \in Threads : pc[u] # "idle" => lg[u] # "writer"
  /\ level' = [level EXCEPT !["writer"] = level[l]]
  /\ branch' = [branch EXCEPT !["writer"] = branch[l]]
  /\ scratch' = [scratch EXCEPT !["writer"] = <<OPEN>>]
  /\ timeFormatter' = [timeFormatter EXCEPT !["writer"] = timeFormatter[l]]
  /\ emutex' = [emutex EXCEPT !["writer"] = FALSE]
  /\ emitLevel' = e
  /\ UNCHANGED <<xvars, tracing, omutex, inflight, fatal, il, sink, wn, sinkn, locals>>

\* mutant: a suppressed Write reports that it wrote nothing
SuppressedCountZero(b) == 0

\* the count Writer.Write returns when the record is not admitted
SuppressedCount(b) == BufLen(b)

\* the gate of Writer.Write: the Writer's level admits the level it emits at
WriterGate(e, lvl, tr) == tr \/ lvl <= AccLevel(e)

\* Writer.Write up to the lock of the Event: nothing to do for an empty
\* buf and for a record the level does not admit
WriterWrite(t, b) ==
  /\ ~fatal
  /\ pc[t] = "idle"
  /\ lg' = [lg EXCEPT ![t] = "writer"]
  /\ acc' = [acc EXCEPT ![t] = emitLevel]
  /\ msg' = [msg EXCEPT ![t] = b]
  /\ seen' = [seen EXCEPT ![t] = level["writer"]]
  /\ IF BufLen(b) = 0
       THEN /\ pc' = [pc EXCEPT ![t] = "wdone"]
            /\ ret' = [ret EXCEPT ![t] = "nil"]
            /\ wn' = [wn EXCEPT ![t] = 0]
       ELSE IF ~WriterGate(emitLevel, level["writer"], tracing["writer"])
         THEN /\ pc' = [pc EXCEPT ![t] = "wdone"]
              /\ ret' = [ret EXCEPT ![t] = "nil"]
              /\ wn' = [wn EXCEPT ![t] = SuppressedCount(b)]
         ELSE /\ pc' = [pc EXCEPT ![t] = "wlock"]
              /\ ret' = ret
              /\ wn' = wn
  /\ UNCHANGED <<xvars, shared, il, sink, emitLevel, sinkn, out, ev, sub, nprops, pval,
                 nwrites, nunlocks, nlocks, nformats>>

\* Writer.Write from the lock to the call of output.Write: the time
\* formatter, the level label, the branch and the message.  When the time
\* formatter panics the deferred function recovers, truncates the buffer
\* and calls Err(err).Msg, which builds the substitute record.
WriterBuild(t) ==
  LET f == timeFormatter["writer"] IN
  /\ ~fatal
  /\ pc[t] = "wlock"
  /\ EventLockable("writer")
  /\ emutex' = [emutex EXCEPT !["writer"] = TRUE]
  /\ nlocks' = [nlocks EXCEPT ![t] = @ + 1]
  /\ nformats' = [nformats EXCEPT ![t] = IF f = "nil" THEN @ ELSE @ + 1]
  /\ sub' = [sub EXCEPT ![t] = f = "panic"]
  /\ scratch' = [scratch EXCEPT !["writer"] =
       IF f = "panic"
         THEN SubstituteRecord(@)
         ELSE FormatTime(f, @) \o LevelBytes(acc[t]) \o branch["writer"]
                \o << <<"message", msg[t]>>, CLOSE, NL >>]
  /\ pc' = [pc EXCEPT ![t] = "wwrite"]
  /\ UNCHANGED <<xvars, wvars, level, tracing, branch, timeFormatter, omutex, inflight,
                 fatal, il, lg, acc, ev, nprops, msg, ret, pval, nwrites,
                 nunlocks, seen, out>>

\* output.Write called by Writer.Write (or by the Msg of its deferred
\* function): lock the output and call Write of the io.Writer
WriterOutput(t) ==
  /\ ~fatal
  /\ pc[t] = "wwrite"
  /\ OutputLockable
  /\ omutex' = TRUE
  /\ inflight' = inflight \cup {<<t, scratch["writer"], sink>>}
  /\ nwrites' = [nwrites EXCEPT ![t] = @ + 1]
  /\ pc' = [pc EXCEPT ![t] = "winwrite"]
  /\ UNCHANGED <<xvars, wvars, level, tracing, branch, scratch, timeFormatter, emutex,
                 fatal, il, lg, acc, ev, sub, nprops, msg, ret, pval, nunlocks,
                 nlocks, nformats, seen, out>>

\* Write of the io.Writer ends with outcome o, reporting n bytes when it
\* fails.  Writing the record: the error is returned with n, and a panic
\* ends in the recover() of the deferred function, which then truncates
\* and unlocks, so that Write returns its zero results.  Writing the
\* substitute record: the deferred function of Msg truncates and unlocks;
\* a panic leaves the deferred function of Write, otherwise that function
\* goes on to truncate and to unlock the mutex a second time.
\* the count Write returns with the error of a failed sink write: the count
\* the io.Writer returned, not the length of buf
FailedCountIsLen(n, b) == BufLen(b)

FailedCount(n, b) == n

WriterReturn(t, o, n) ==
  /\ ~fatal
  /\ pc[t] = "winwrite"
  /\ inflight' = {w \in inflight : w[1] # t}
  /\ omutex' = FALSE
  /\ scratch' = [scratch EXCEPT !["writer"] = Truncate(@)]
  /\ emutex' = [emutex EXCEPT !["writer"] = FALSE]
  /\ out' = [out EXCEPT ![t] = o]
  /\ sinkn' = [sinkn EXCEPT ![t] = IF o = "err" THEN n ELSE -1]
  /\ pc' = [pc EXCEPT ![t] = "wdone"]
  /\ IF sub[t]
       THEN /\ fatal' = (UnlockFatal(emutex["writer"]) \/ (o # "panic" /\ UnlockFatal(FALSE)))
            /\ nunlocks' = [nunlocks EXCEPT ![t] = IF o = "panic" THEN @ + 1 ELSE @ + 2]
            /\ ret' = [ret EXCEPT ![t] = IF o = "panic" THEN "panic" ELSE "none"]
            /\ pval' = [pval EXCEPT ![t] = IF o = "panic" THEN "sink" ELSE "none"]
            /\ wn' = wn
       ELSE /\ fatal' = UnlockFatal(emutex["writer"])
            /\ nunlocks' = [nunlocks EXCEPT ![t] = @ + 1]
            /\ ret' = [ret EXCEPT ![t] = IF o = "err" THEN "err" ELSE "nil"]
            /\ pval' = pval
            /\ wn' = [wn EXCEPT ![t] =
                 CASE o = "ok" -> BufLen(msg[t])
                   [] o = "err" -> FailedCount(n, msg[t])
                   [] OTHER -> 0]
  /\ UNCHANGED <<xvars, level, tracing, branch, timeFormatter, il, sink, emitLevel,
                 lg, acc, ev, sub, nprops, msg, nwrites, nlocks, nformats, seen>>

\* the caller has the results of Writer.Write and goes on
WriterDone(t) ==
  /\ ~fatal
  /\ pc[t] = "wdone"
  /\ pc' = [pc EXCEPT ![t] = "idle"]
  /\ lg' = [lg EXCEPT ![t] = "root"]
  /\ acc' = [acc EXCEPT ![t] = "log"]
  /\ sub' = [sub EXCEPT ![t] = FALSE]
  /\ msg' = [msg EXCEPT ![t] = ""]
  /\ ret' = [ret EXCEPT ![t] = "none"]
  /\ pval' = [pval EXCEPT ![t] = "none"]
  /\ nwrites' = [nwrites EXCEPT ![t] = 0]
  /\ nunlocks' = [nunlocks EXCEPT ![t] = 0]
  /\ nlocks' = [nlocks EXCEPT ![t] = 0]
  /\ nformats' = [nformats EXCEPT ![t] = 0]
  /\ seen' = [seen EXCEPT ![t] = Debug]
  /\ out' = [out EXCEPT ![t] = "none"]
  /\ wn' = [wn EXCEPT ![t] = -1]
  /\ sinkn' = [sinkn EXCEPT ![t] = -1]
  /\ UNCHANGED <<xvars, shared, il, sink, emitLevel, ev, nprops>>

\* ------------------------------------------------------------------ specifications
\* the steps of the threads Ts, with levels, accessors and time formatters
\* drawn from Lvs, Accs and Tfs
Step(Ts, Lvs, Accs, Tfs) ==
  \/ \E t \in Ts, l \in Loggers, v \in Lvs : SetLevel(t, l, v)
  \/ \E t \in Ts, l \in Loggers, f \in Tfs : SetTimeFormatter(t, l, f)
  \/ \E t \in Ts, l \in Loggers, a \in Accs : Accessor(t, l, a)
  \/ \E t \in Ts : EventOpen(t)
  \/ \E t \in Ts : Prop(t)
  \/ \E t \in Ts, s \in Messages : Msg(t, s)
  \/ \E t \in Ts : OutputWrite(t)
  \/ \E t \in Ts, o \in SinkOutcomes : WriteReturn(t, o)
  \/ \E t \in Ts : Return(t)

\* one thread, every level, accessor and time formatter
NextSeq ==
  \/ Step({"t1"}, Levels, Accessors, TimeFormatters)
  \/ StringerPanic("t1")

SpecSeq == Init /\ [][NextSeq]_vars

\* two threads, with a gated and an ungated accessor and a level on either
\* side of the gate; the values given to Stringer do not panic
Next == Step(Threads, {Debug, Warning}, {"log", "debug"}, TimeFormatters)

Spec == Init /\ [][Next]_vars

\* two threads that log with level accessors only while the level changes;
\* the time formatter does not panic
NextLevel == Step(Threads, {Debug, Warning}, {"debug", "warning"}, {"nil", "stamp"})

SpecLevel == Init /\ [][NextLevel]_vars

\* one thread that derives Loggers, sets levels and tracing, and logs with
\* the Loggers it has between the derivations; the sink does not fail
NextDerive ==
  \/ \E l \in AllLoggers, v \in {Debug, Warning} : SetLevel("t1", l, v)
  \/ \E f \in {"nil", "stamp"} : SetTimeFormatter("t1", "root", f)
  \/ \E l \in {"root", "child"}, b \in BOOLEAN :
       il["t1"] = NoIL /\ SetTracing("t1", l, b)
  \/ \E p \in {"root", "child"} : With("t1", p)
  \/ IntermediateString("t1")
  \/ IntermediateTracing("t1")
  \/ IntermediateLogger("t1")
  \/ \E l \in AllLoggers : il["t1"] = NoIL /\ Accessor("t1", l, "debug")
  \/ EventOpen("t1")
  \/ Prop("t1")
  \/ \E s \in Messages : Msg("t1", s)
  \/ OutputWrite("t1")
  \/ WriteReturn("t1", "ok")
  \/ Return("t1")

SpecDerive == Init /\ [][NextDerive]_vars

\* one thread that sets the level and the time formatter of root, makes
\* Writers from root and writes through the Writer it has
NextWriter ==
  \/ \E v \in Levels : SetLevel("t1", "root", v)
  \/ \E f \in TimeFormatters : SetTimeFormatter("t1", "root", f)
  \/ \E e \in Accessors \ {"log"} : NewWriter("t1", "root", e)
  \/ \E b \in Bufs : WriterWrite("t1", b)
  \/ WriterBuild("t1")
  \/ WriterOutput("t1")
  \/ \E o \in SinkOutcomes, n \in 0..MaxWrite : WriterReturn("t1", o, n)
  \/ WriterDone("t1")

SpecWriter == Init /\ [][NextWriter]_vars

\* Writer.SetLevel and its shortcuts: an atomic store to the Writer's level
WriterSetLevel(t, v) ==
  /\ ~fatal
  /\ pc[t] = "idle"
  /\ level' = [level EXCEPT !["writer"] = v]
  /\ UNCHANGED <<xvars, wvars, tracing, branch, scratch, timeFormatter, emutex, omutex,
                 inflight, fatal, il, locals>>

\* ------------------------------------------------------------------ labels
\* the values a Level can be given: it is a uint32, and SetLevel stores
\* what it is handed
LevelValues == 0..MaxLevel

\* Level.String: the label of the five levels, "panic" for a panic
LevelString(v) ==
  CASE v = Debug -> "debug"
    [] v = Verbose -> "verbose"
    [] v = Info -> "info"
    [] v = Warning -> "warning"
    [] v = Error -> "error"
    [] OTHER -> "panic"

\* the switch of Writer.Write on the level of the Writer
WriteLevelLabel(v) ==
  CASE v = Debug -> "debug"
    [] v = Verbose -> "verbose"
    [] v = Info -> "info"
    [] v = Warning -> "warning"
    [] v = Error -> "error"
    [] OTHER -> "unknown"

\* a call of Level.String on v
LevelStringCall(t, v) ==
  /\ ~fatal
  /\ pc[t] = "idle"
  /\ seen' = [seen EXCEPT ![t] = v]
  /\ msg' = [msg EXCEPT ![t] = IF LevelString(v) = "panic" THEN "" ELSE LevelString(v)]
  /\ ret' = [ret EXCEPT ![t] = IF LevelString(v) = "panic" THEN "panic" ELSE "nil"]
  /\ pval' = [pval EXCEPT ![t] = IF LevelString(v) = "panic" THEN "level" ELSE "none"]
  /\ pc' = [pc EXCEPT ![t] = "sdone"]
  /\ UNCHANGED <<xvars, wvars, shared, il, lg, acc, ev, sub, nprops, nwrites, nunlocks,
                 nlocks, nformats, out>>

\* the caller has the result of Level.String and goes on
LevelStringReturn(t) ==
  /\ ~fatal
  /\ pc[t] = "sdone"
  /\ pc' = [pc EXCEPT ![t] = "idle"]
  /\ msg' = [msg EXCEPT ![t] = ""]
  /\ ret' = [ret EXCEPT ![t] = "none"]
  /\ pval' = [pval EXCEPT ![t] = "none"]
  /\ UNCHANGED <<xvars, wvars, shared, il, lg, acc, ev, sub, nprops, nwrites, nunlocks,
                 nlocks, nformats, seen, out>>

\* Event.newWriter: a Writer with a copy of the level, the branch and the
\* time formatter of the Logger's Event
newWriter(t, l) ==
  /\ ~fatal
  /\ pc[t] = "idle"
  /\ \A u \in Threads : pc[u] # "idle" => lg[u] # "writer"
  /\ level' = [level EXCEPT !["writer"] = level[l]]
  /\ branch' = [branch EXCEPT !["writer"] = branch[l]]
  /\ scratch' = [scratch EXCEPT !["writer"] = <<OPEN>>]
  /\ timeFormatter' = [timeFormatter EXCEPT !["writer"] = timeFormatter[l]]
  /\ emutex' = [emutex EXCEPT !["writer"] = FALSE]
  /\ UNCHANGED <<xvars, wvars, tracing, omutex, inflight, fatal, il, locals>>

\* Writer.Write of the Writer without a gate, up to the lock of its
\* Event: nothing to do for an empty buf
WriterWriteUngated(t, b) ==
  /\ ~fatal
  /\ pc[t] = "idle"
  /\ lg' = [lg EXCEPT ![t] = "writer"]
  /\ msg' = [msg EXCEPT ![t] = b]
  /\ seen' = [seen EXCEPT ![t] = level["writer"]]
  /\ IF BufLen(b) = 0
       THEN /\ pc' = [pc EXCEPT ![t] = "wdone"]
            /\ ret' = [ret EXCEPT ![t] = "nil"]
            /\ wn' = [wn EXCEPT ![t] = 0]
       ELSE /\ pc' = [pc EXCEPT ![t] = "wlabel"]
            /\ ret' = ret
            /\ wn' = wn
  /\ UNCHANGED <<xvars, shared, il, sink, emitLevel, sinkn, out, acc, ev, sub, nprops,
                 pval, nwrites, nunlocks, nlocks, nformats>>

\* Writer.Write of the Writer without a gate, from the lock to the call of
\* output.Write: the time formatter, the label the switch picks for the
\* level of the Writer, the branch and the message
WriterBuildLabel(t) ==
  LET f == timeFormatter["writer"] IN
  /\ ~fatal
  /\ pc[t] = "wlabel"
  /\ EventLockable("writer")
  /\ emutex' = [emutex EXCEPT !["writer"] = TRUE]
  /\ nlocks' = [nlocks EXCEPT ![t] = @ + 1]
  /\ nformats' = [nformats EXCEPT ![t] = IF f = "nil" THEN @ ELSE @ + 1]
  /\ sub' = [sub EXCEPT ![t] = f = "panic"]
  /\ scratch' = [scratch EXCEPT !["writer"] =
       IF f = "panic"
         THEN SubstituteRecord(@)
         ELSE FormatTime(f, @) \o Field("level", WriteLevelLabel(level["writer"]))
                \o branch["writer"] \o << <<"message", msg[t]>>, CLOSE, NL >>]
  /\ pc' = [pc EXCEPT ![t] = "wwrite"]
  /\ UNCHANGED <<xvars, wvars, level, tracing, branch, timeFormatter, omutex, inflight,
                 fatal, il, lg, acc, ev, nprops, msg, ret, pval, nwrites,
                 nunlocks, seen, out>>

\* one thread giving a Logger any level value, asking for labels, and
\* writing to a Writer made from the Logger
NextLabel ==
  \/ \E v \in LevelValues : SetLevel("t1", "root", v)
  \/ \E v \in LevelValues : LevelStringCall("t1", v)
  \/ LevelStringReturn("t1")
  \/ newWriter("t1", "root")
  \/ \E b \in Bufs : WriterWriteUngated("t1", b)
  \/ WriterBuildLabel("t1")
  \/ WriterOutput("t1")
  \/ \E o \in SinkOutcomes, n \in 0..MaxWrite : WriterReturn("t1", o, n)
  \/ WriterDone("t1")

SpecLabel == Init /\ [][NextLabel]_vars

\* one thread setting the level of a Logger and of the Writer made from
\* it, and writing to the Writer
NextOwnLevel ==
  \/ \E v \in Levels : SetLevel("t1", "root", v)
  \/ \E e \in Accessors \ {"log"} : NewWriter("t1", "root", e)
  \/ \E v \in Levels : WriterSetLevel("t1", v)
  \/ \E b \in Bufs : WriterWrite("t1", b)
  \/ WriterBuild("t1")
  \/ WriterOutput("t1")
  \/ \E o \in SinkOutcomes, n \in 0..MaxWrite : WriterReturn("t1", o, n)
  \/ WriterDone("t1")

SpecOwnLevel == Init /\ [][NextOwnLevel]_vars

\* two threads logging with Log() on Loggers that share the output while
\* the io.Writer is replaced
NextSink ==
  \/ \E t \in Threads, w \in Sinks : SetWriter(t, w)
  \/ \E t \in Threads, l \in Loggers : Accessor(t, l, "log")
  \/ \E t \in Threads : EventOpen(t)
  \/ \E t \in Threads, m \in Messages : Msg(t, m)
  \/ \E t \in Threads : OutputWrite(t)
  \/ \E t \in Threads, o \in SinkOutcomes : WriteReturn(t, o)
  \/ \E t \in Threads : Return(t)

SpecSink == Init /\ [][NextSink]_vars

\* one thread logging on the Logger New returned, its level never set
NextNew ==
  \/ \E f \in TimeFormatters : SetTimeFormatter("t1", "root", f)
  \/ \E a \in Accessors : Accessor("t1", "root", a)
  \/ EventOpen("t1")
  \/ Prop("t1")
  \/ \E m \in Messages : Msg("t1", m)
  \/ OutputWrite("t1")
  \/ \E o \in SinkOutcomes : WriteReturn("t1", o)
  \/ Return("t1")

SpecNew == Init /\ [][NextNew]_vars

\* ------------------------------------------------------------------ blocking calls
\* the setters and With() in the steps a second thread can come between

\* Logger.SetTimeFormatter is called: event.mutex.Lock() is to come
SetTimeFormatterCall(t, l) ==
  /\ ~fatal
  /\ pc[t] = "idle"
  /\ pc' = [pc EXCEPT ![t] = "stf"]
  /\ lg' = [lg EXCEPT ![t] = l]
  /\ UNCHANGED <<xvars, wvars, shared, il, acc, ev, sub, nprops, msg, ret, pval,
                 nwrites, nunlocks, nlocks, nformats, seen, out>>

\* Event.setTimeFormatter: event.mutex.Lock() returns
SetTimeFormatterLock(t) ==
  /\ ~fatal
  /\ pc[t] = "stf"
  /\ EventLockable(lg[t])
  /\ emutex' = [emutex EXCEPT ![lg[t]] = TRUE]
  /\ pc' = [pc EXCEPT ![t] = "stfstore"]
  /\ UNCHANGED <<xvars, wvars, level, tracing, branch, scratch, timeFormatter, omutex,
                 inflight, fatal, il, lg, acc, ev, sub, nprops, msg, ret, pval,
                 nwrites, nunlocks, nlocks, nformats, seen, out>>

\* mutant: setTimeFormatter returns with the Event mutex locked
SetTimeFormatterStoreKeepsLock(t, f) ==
  /\ ~fatal
  /\ pc[t] = "stfstore"
  /\ timeFormatter' = [timeFormatter EXCEPT ![lg[t]] = f]
  /\ pc' = [pc EXCEPT ![t] = "idle"]
  /\ lg' = [lg EXCEPT ![t] = "root"]
  /\ UNCHANGED <<xvars, wvars, level, tracing, branch, scratch, emutex, omutex,
                 inflight, fatal, il, acc, ev, sub, nprops, msg, ret, pval,
                 nwrites, nunlocks, nlocks, nformats, seen, out>>

\* Event.setTimeFormatter: the store of the callback and event.mutex.Unlock()
SetTimeFormatterStore(t, f) ==
  /\ ~fatal
  /\ pc[t] = "stfstore"
  /\ timeFormatter' = [timeFormatter EXCEPT ![lg[t]] = f]
  /\ emutex' = [emutex EXCEPT ![lg[t]] = FALSE]
  /\ pc' = [pc EXCEPT ![t] = "idle"]
  /\ lg' = [lg EXCEPT ![t] = "root"]
  /\ UNCHANGED <<xvars, wvars, level, tracing, branch, scratch, omutex,
                 inflight, fatal, il, acc, ev, sub, nprops, msg, ret, pval,
                 nwrites, nunlocks, nlocks, nformats, seen, out>>

\* Logger.SetWriter is called: o.mutex.Lock() is to come
SetWriterCall(t) ==
  /\ ~fatal
  /\ pc[t] = "idle"
  /\ pc' = [pc EXCEPT ![t] = "sw"]
  /\ UNCHANGED <<xvars, wvars, shared, il, lg, acc, ev, sub, nprops, msg, ret, pval,
                 nwrites, nunlocks, nlocks, nformats, seen, out>>

\* output.SetWriter: o.mutex.Lock() returns, the store, o.mutex.Unlock()
SetWriterStore(t, w) ==
  /\ ~fatal
  /\ pc[t] = "sw"
  /\ OutputLockable
  /\ sink' = w
  /\ pc' = [pc EXCEPT ![t] = "idle"]
  /\ UNCHANGED <<xvars, shared, il, emitLevel, wn, sinkn, lg, acc, ev, sub, nprops,
                 msg, ret, pval, nwrites, nunlocks, nlocks, nformats, seen, out>>

\* Logger.With: log.mutex.RLock() returns; nothing write-locks log.mutex
WithRLock(t, p) ==
  /\ ~fatal
  /\ pc[t] = "idle"
  /\ il[t] = NoIL
  /\ pc' = [pc EXCEPT ![t] = "with"]
  /\ lg' = [lg EXCEPT ![t] = p]
  /\ UNCHANGED <<xvars, wvars, shared, il, acc, ev, sub, nprops, msg, ret, pval,
                 nwrites, nunlocks, nlocks, nformats, seen, out>>

\* the values a read of log.event.timeFormatter can give: the stored one,
\* or any at all while a setTimeFormatter on the Logger holds event.mutex
\* for its store, the read being under another mutex
TimeFormatterRead(p) ==
  IF \E u \in Threads : pc[u] = "stfstore" /\ lg[u] = p
    THEN TimeFormatters
    ELSE {timeFormatter[p]}

\* Logger.With: the Intermediate is filled and log.mutex.RUnlock() called
WithRead(t, f) ==
  /\ ~fatal
  /\ pc[t] = "with"
  /\ f \in TimeFormatterRead(lg[t])
  /\ il' = [il EXCEPT ![t] =
       [from |-> lg[t], branch |-> branch[lg[t]], timeFormatter |-> f,
        level |-> level[lg[t]], tracing |-> FALSE]]
  /\ pc' = [pc EXCEPT ![t] = "idle"]
  /\ lg' = [lg EXCEPT ![t] = "root"]
  /\ UNCHANGED <<xvars, wvars, shared, acc, ev, sub, nprops, msg, ret, pval,
                 nwrites, nunlocks, nlocks, nformats, seen, out>>

\* two threads calling SetTimeFormatter and With() on the same Loggers
NextRace ==
  \/ \E t \in Threads, l \in Loggers : SetTimeFormatterCall(t, l)
  \/ \E t \in Threads : SetTimeFormatterLock(t)
  \/ \E t \in Threads, f \in TimeFormatters : SetTimeFormatterStore(t, f)
  \/ \E t \in Threads, l \in Loggers : WithRLock(t, l)
  \/ \E t \in Threads, f \in TimeFormatters : WithRead(t, f)
  \/ \E t \in Threads : IntermediateLogger(t)

SpecRace == Init /\ [][NextRace]_vars

\* two threads logging with Log(), replacing the time formatter and the
\* io.Writer and making Writers; every sink write returns
NextLive ==
  \/ \E t \in Threads, l \in Loggers : Accessor(t, l, "log")
  \/ \E t \in Threads : EventOpen(t)
  \/ \E t \in Threads : Msg(t, "m")
  \/ \E t \in Threads : OutputWrite(t)
  \/ \E t \in Threads, o \in {"ok", "err"} : WriteReturn(t, o)
  \/ \E t \in Threads : Return(t)
  \/ \E t \in Threads, l \in Loggers : SetTimeFormatterCall(t, l)
  \/ \E t \in Threads : SetTimeFormatterLock(t)
  \/ \E t \in Threads, f \in {"nil", "stamp"} : SetTimeFormatterStore(t, f)
  \/ \E t \in Threads : SetWriterCall(t)
  \/ \E t \in Threads, w \in Sinks : SetWriterStore(t, w)
  \/ \E t \in Threads, l \in Loggers : NewWriter(t, l, "info")

\* every open Event is completed by Msg, the sink returns, and a thread
\* that waits for a mutex gets it when it is free again and again
Fairness ==
  \A t \in Threads :
    /\ SF_vars(EventOpen(t))
    /\ WF_vars(Msg(t, "m"))
    /\ SF_vars(OutputWrite(t))
    /\ WF_vars(\E o \in {"ok", "err"} : WriteReturn(t, o))
    /\ WF_vars(Return(t))
    /\ SF_vars(SetTimeFormatterLock(t))
    /\ WF_vars(\E f \in {"nil", "stamp"} : SetTimeFormatterStore(t, f))
    /\ SF_vars(\E w \in Sinks : SetWriterStore(t, w))

SpecLive == Init /\ [][NextLive]_vars /\ Fairness

\* ------------------------------------------------------------------ branches
\* the bytes of a slice
SliceBytes(h, r) == IF r.arr = 0 THEN <<>> ELSE SubSeq(h[r.arr], 1, r.len)

SliceCap(h, r) == IF r.arr = 0 THEN 0 ELSE Len(h[r.arr])

\* append(slice, x): in place, behind the bytes of the slice, when the array
\* has room; else into a new array with up to MaxSpare cells to spare
AppendByte(h, r, x, spare) ==
  IF r.len < SliceCap(h, r)
    THEN [heap |-> [h EXCEPT ![r.arr][r.len + 1] = x],
          ref |-> [r EXCEPT !.len = @ + 1]]
    ELSE [heap |-> Append(h, SliceBytes(h, r) \o <<x>> \o [i \in 1..spare |-> FREE]),
          ref |-> [arr |-> Len(h) + 1, len |-> r.len + 1]]

\* Logger.NewBranchWithString: NewBranch copies the slice header of the
\* parent's branch, then the name and value and the comma are appended
\* to the child's slice
NewBranchWithString(c, v, s1, s2) ==
  LET par == BParent(c)
      a1 == AppendByte(heap, bref[par], <<c, v>>, s1)
      a2 == AppendByte(a1.heap, a1.ref, SEP, s2)
  IN
  /\ bref[c] = NilSlice
  /\ par = "top" \/ bref[par] # NilSlice
  /\ heap' = a2.heap
  /\ bref' = [bref EXCEPT ![c] = a2.ref]
  /\ expect' = [expect EXCEPT ![c] = expect[par] \o Field(c, v)]
  /\ UNCHANGED <<cvars, shared, il, wvars, locals>>

\* the branch bytes the event methods of Logger l append to a record
BranchBytes(l) == SliceBytes(heap, bref[l])

NextBranch ==
  \E c \in BDerived, v \in {"1", "2"}, s1 \in 0..MaxSpare, s2 \in 0..MaxSpare :
    NewBranchWithString(c, v, s1, s2)

SpecBranch == Init /\ [][NextBranch]_vars

\* ------------------------------------------------------------------ wrapper chain
\* the variables of the JSON Logger, which the wrapper chain leaves alone
jsonvars == <<shared, il, wvars, locals, bvars>>

\* lib.go: Dev Level = iota, Admin, User
Dev == 0
Admin == 1
User == 2
ChainLevels == {Dev, Admin, User}
Kinds == {"filter", "prefixer", "tracer"}
Templates == {"message", "level"}

\* e.level | 4, for the levels below 8
Or4(l) == IF l >= 4 THEN l ELSE l + 4

\* lib.go Level.String; "panic" stands for panic("invalid log level")
WrapperLevelString(l) ==
  CASE l = User -> "USER"
    [] l = Admin -> "ADMIN"
    [] l = Dev -> "DEV"
    [] OTHER -> "panic"

\* New(w, template): a Base with nothing composed on it
ChainNew(tpl) ==
  /\ cev.st = "none"
  /\ template' = tpl
  /\ chain' = <<>>
  /\ UNCHANGED <<cev, jsonvars>>

\* NewFilter, NewPrefixer, NewTracer on the topmost Logger
Compose(k) ==
  /\ cev.st = "none"
  /\ Len(chain) < MaxChain
  /\ chain' = Append(chain, [kind |-> k, level |-> User])
  /\ UNCHANGED <<template, cev, jsonvars>>

\* Filter.SetLevel, SetDev, SetAdmin, SetUser: an atomic store
FilterSetLevel(i, v) ==
  /\ i \in 1..Len(chain)
  /\ chain[i].kind = "filter"
  /\ chain' = [chain EXCEPT ![i].level = v]
  /\ UNCHANGED <<template, cev, jsonvars>>

\* Filter.Dev, Admin, User and Filter.log: the event goes on unless the
\* level of the Filter is above the level of the event
FilterPasses(f, l) == ~(f > l)

\* Dev, Admin or User called on the i-th Logger of the chain, 0 the Base:
\* the Logger makes the event and hands it to the log method of the Logger
\* under it
ChainCall(i, lv) ==
  /\ cev.st = "none"
  /\ i \in 0..Len(chain)
  /\ cev' =
       IF i = 0
         THEN [st |-> "moving", at |-> 0, level |-> lv, lv |-> lv, traced |-> FALSE]
       ELSE CASE chain[i].kind = "filter" ->
                   IF FilterPasses(chain[i].level, lv)
                     THEN [st |-> "moving", at |-> i - 1, level |-> lv, lv |-> lv,
                           traced |-> FALSE]
                     ELSE [st |-> "dropped", at |-> i, level |-> lv, lv |-> lv,
                           traced |-> FALSE]
              [] chain[i].kind = "prefixer" ->
                   [st |-> "moving", at |-> i - 1, level |-> lv, lv |-> lv,
                    traced |-> FALSE]
              [] OTHER ->
                   [st |-> "moving", at |-> i - 1, level |-> Or4(lv), lv |-> lv,
                    traced |-> TRUE]
  /\ UNCHANGED <<chain, template, jsonvars>>

\* the log method of the Logger the event has come to: Base.log formats
\* and writes it, Filter.log drops it or hands it on, Prefixer.log hands it
\* on, Tracer.log sets the tracer bit and hands it on
ChainLog ==
  /\ cev.st = "moving"
  /\ cev' =
       IF cev.at = 0
         THEN IF template = "level" /\ WrapperLevelString(cev.level) = "panic"
                THEN [cev EXCEPT !.st = "panic"]
                ELSE [cev EXCEPT !.st = "written"]
       ELSE CASE chain[cev.at].kind = "filter" ->
                   IF FilterPasses(chain[cev.at].level, cev.level)
                     THEN [cev EXCEPT !.at = @ - 1]
                     ELSE [cev EXCEPT !.st = "dropped"]
              [] chain[cev.at].kind = "prefixer" -> [cev EXCEPT !.at = @ - 1]
              [] OTHER ->
                   [cev EXCEPT !.at = @ - 1, !.level = Or4(@), !.traced = TRUE]
  /\ UNCHANGED <<chain, template, jsonvars>>

\* the call on the chain has returned or panicked
ChainReturn ==
  /\ cev.st \in {"dropped", "written", "panic"}
  /\ cev' = NoEvent
  /\ UNCHANGED <<chain, template, jsonvars>>

NextChain ==
  \/ \E tpl \in Templates : ChainNew(tpl)
  \/ \E k \in Kinds : Compose(k)
  \/ \E i \in 1..MaxChain, v \in ChainLevels : FilterSetLevel(i, v)
  \/ \E i \in 0..MaxChain, lv \in ChainLevels : ChainCall(i, lv)
  \/ ChainLog
  \/ ChainReturn

SpecChain == Init /\ [][NextChain]_vars

\* ------------------------------------------------------------------ claims
\* helpers of the claims
RECURSIVE PropBytes(_, _)
PropBytes(t, n) == IF n = 0 THEN <<>> ELSE Field("prop", t) \o PropBytes(t, n - 1)

Last(buf) == buf[Len(buf)]

CountNL(buf) == Cardinality({i \in 1..Len(buf) : buf[i] = NL})

\* the thread's call was completed by Msg (it was not abandoned by a panic
\* in the chain)
Completed(t) == pc[t] = "done" /\ pval[t] # "stringer"

\* the bytes after the first one that the call of thread t hands to the sink:
\* time stamp, level label, branch, its properties, its message
OwnFields(t) ==
  LET l == lg[t]
      body == IF acc[t] = "log" THEN <<>> ELSE << <<"level", acc[t]>>, SEP >>
      stamp == IF timeFormatter[l] = "stamp" THEN << <<"time", "now">>, SEP >> ELSE <<>>
      all == <<OPEN>> \o stamp \o body \o branch[l] \o PropBytes(t, nprops[t])
      closed == IF msg[t] = ""
                  THEN SubSeq(all, 1, Len(all) - 1) \o <<CLOSE, NL>>
                  ELSE all \o << <<"message", msg[t]>>, CLOSE, NL >>
  IN  Tail(closed)

\* the fields of the record written in place of one whose time formatter
\* panicked
SubstituteFields ==
  << <<"error", "time-formatter-boom!">>, SEP,
     <<"message", "panic when time formatter invoked">>, CLOSE, NL >>

\* C1: a completed call of a level accessor L on a Logger at threshold T
\* makes a sink write iff L >= T or the Logger is tracing; Error always does.
C1_EmitsIffAdmitted ==
  \A t \in Threads :
    (Completed(t) /\ acc[t] # "log") =>
      ((nwrites[t] = 1) <=>
         (\/ acc[t] = "error"
          \/ AccLevel(acc[t]) >= level[lg[t]]
          \/ tracing[lg[t]]))

C1_Witness ==
  \E t \in Threads :
    /\ Completed(t) /\ acc[t] = "debug" /\ lg[t] = "child"
    /\ tracing["child"] /\ level["child"] = Error /\ nwrites[t] = 1

\* C2: every Write on the destination carries one complete record, from the
\* opening '{' to the closing '}' and the only newline, and a call makes at
\* most one Write.
C2_OneCompleteWrite ==
  /\ \A w \in inflight :
       /\ Len(w[2]) >= 3
       /\ Head(w[2]) = OPEN
       /\ w[2][Len(w[2]) - 1] = CLOSE
       /\ Last(w[2]) = NL
       /\ CountNL(w[2]) = 1
  /\ \A t \in Threads : nwrites[t] <= 1
\* C3: a thread with an open Event holds the Event mutex of its Logger, no
\* two threads have an Event of the same Logger open, and every sink write
\* carries, after the first byte, the fields of one call only.
HoldsOpen(t) ==
  \/ pc[t] = "chain" /\ ev[t] = "open"
  \/ pc[t] \in {"write", "inwrite"}

C3_RecordLockSerializes ==
  /\ \A t \in Threads : HoldsOpen(t) => emutex[lg[t]]
  /\ \A t, u \in Threads : (t # u /\ HoldsOpen(t) /\ HoldsOpen(u)) => lg[t] # lg[u]
  /\ \A w \in inflight :
       Tail(w[2]) = IF sub[w[1]] THEN SubstituteFields ELSE OwnFields(w[1])

C3_Witness ==
  \E t, u \in Threads :
    /\ t # u /\ lg[t] = lg[u]
    /\ pc[t] = "inwrite" /\ nprops[t] = 1 /\ ~sub[t]
    /\ pc[u] = "lock"

C5_ScratchIsPrefixAfterMsg ==
  \A t \in Threads :
    (pc[t] = "done" /\ nunlocks[t] >= 1) => scratch[lg[t]] = <<OPEN>>

\* C6: when the sink panicked during the write, the output mutex and the
\* Event mutex are free and the scratch buffer is one byte long when the
\* panic reaches the caller.
C6_SinkPanicReleasesLocks ==
  \A t \in Threads :
    (pc[t] = "done" /\ pval[t] = "sink") =>
      /\ ~omutex
      /\ ~emutex[lg[t]]
      /\ inflight = {}
      /\ Len(scratch[lg[t]]) = 1
      /\ nunlocks[t] = 1
      /\ ~fatal

C6_Witness ==
  \E t \in Threads :
    pc[t] = "done" /\ pval[t] = "sink" /\ ~sub[t] /\ nprops[t] = 1

\* C7: a call whose time formatter panicked makes exactly one sink write, of
\* the substitute record with the error and the fixed message and no field
\* of the call itself, and no panic but one of the sink reaches the caller.
C7_SubstituteRecordOnly ==
  /\ \A w \in inflight : sub[w[1]] => Tail(w[2]) = SubstituteFields
  /\ \A t \in Threads :
       (pc[t] = "done" /\ sub[t]) =>
         /\ nwrites[t] = 1
         /\ nformats[t] = 1
         /\ pval[t] \in {"none", "sink"}
         /\ pval[t] = "none" => ret[t] = "nil"

C7_Witness ==
  \E t \in Threads :
    /\ pc[t] = "done" /\ sub[t] /\ ret[t] = "nil"
    /\ acc[t] = "info" /\ nprops[t] = 1 /\ msg[t] = "m"

\* C8: once the substitute record is written the Event mutex was locked and
\* unlocked once, the accessor has returned nil, the chain and Msg of the
\* caller neither unlock nor write, and the buffer is one byte long and the
\* mutex free; every other record carries the fields of its own call.
C8_PanicHandledOnce ==
  /\ ~fatal
  /\ \A t \in Threads :
       (sub[t] /\ pc[t] \in {"chain", "done"}) =>
         /\ nlocks[t] = 1 /\ nunlocks[t] = 1 /\ nwrites[t] = 1
         /\ ev[t] = "nil"
         /\ ~emutex[lg[t]]
         /\ Len(scratch[lg[t]]) = 1
  /\ \A w \in inflight : ~sub[w[1]] => Tail(w[2]) = OwnFields(w[1])

C8_Witness ==
  \E t \in Threads :
    /\ pc[t] = "done" /\ sub[t] /\ ret[t] = "nil"
    /\ nprops[t] = 1 /\ msg[t] = "" /\ timeFormatter[lg[t]] = "panic"

\* C9: when a property call panicked on an open Event, the Event mutex is
\* free and the scratch buffer is back to one byte when the panic reaches
\* the caller.
C9_PropertyPanicReleases ==
  \A t \in Threads :
    (pc[t] = "done" /\ pval[t] = "stringer") =>
      /\ ~emutex[lg[t]]
      /\ Len(scratch[lg[t]]) = 1

\* C10: a call whose gate check excluded it holds the nil Event, never
\* locked, never ran the time formatter and never wrote, and none of its
\* steps changes a buffer, a mutex or the sink.
Filtered(t) ==
  /\ pc[t] # "idle"
  /\ acc[t] \notin {"log", "error"}
  /\ ~tracing[lg[t]]
  /\ seen[t] > AccLevel(acc[t])

C10_FilteredTouchesNothing ==
  /\ [](\A t \in Threads :
          Filtered(t) =>
            /\ pc[t] \in {"chain", "done"}
            /\ ev[t] = "nil"
            /\ nlocks[t] = 0 /\ nunlocks[t] = 0
            /\ nformats[t] = 0 /\ nwrites[t] = 0
            /\ ret[t] \in {"none", "nil"})
  /\ [][\A t \in Threads :
          (Filtered(t)' /\ (pc'[t] # pc[t] \/ nprops'[t] # nprops[t])) =>
            /\ scratch' = scratch
            /\ emutex' = emutex
            /\ omutex' = omutex
            /\ inflight' = inflight]_vars

C10_Witness ==
  \E t, u \in Threads :
    /\ t # u /\ lg[t] = lg[u]
    /\ Filtered(t) /\ pc[t] = "done" /\ nprops[t] = 1
    /\ pc[u] = "chain" /\ ev[u] = "open" /\ emutex[lg[u]]

\* C11: every method called on the nil Event - a property method or Msg -
\* leaves the buffers, the mutexes and the sink as they are and locks,
\* unlocks and writes nothing; the property methods return nil again and
\* Msg returns a nil error without a panic.
OnSentinel(t) == pc[t] = "chain" /\ ev[t] = "nil"

C11_SentinelCallsAreNoOps ==
  [][\A t \in Threads :
       (OnSentinel(t) /\ (pc'[t] # pc[t] \/ nprops'[t] # nprops[t])) =>
         /\ scratch' = scratch /\ emutex' = emutex
         /\ omutex' = omutex /\ inflight' = inflight
         /\ nlocks'[t] = nlocks[t] /\ nunlocks'[t] = nunlocks[t]
         /\ nwrites'[t] = nwrites[t]
         /\ ev'[t] = "nil"
         /\ pc'[t] \in {"chain", "done"}
         /\ pc'[t] = "done" => (ret'[t] = "nil" /\ pval'[t] = "none")
         /\ ~fatal']_vars

C11_Witness ==
  \E t \in Threads :
    /\ pc[t] = "done" /\ ev[t] = "nil" /\ ~sub[t]
    /\ nprops[t] >= 1 /\ nlocks[t] = 0 /\ ret[t] = "nil"

\* the level label is the first field after the time stamp, if any
HasLabel(buf, a) ==
  \/ Len(buf) >= 2 /\ buf[2] = <<"level", a>>
  \/ Len(buf) >= 4 /\ buf[2][1] = "time" /\ buf[4] = <<"level", a>>

\* C12: SetLevel can be taken by a thread between its calls whatever the
\* state of the mutexes; the gate check of an accessor decides by the level
\* stored last; and the record of an admitted call is written with the
\* label of its accessor whatever the level has become since.
C12_SetLevelNeverBlocks ==
  /\ [](\A t \in Threads, l \in Loggers :
          (pc[t] = "idle" /\ ~fatal) => ENABLED SetLevel(t, l, Debug))
  /\ [][\A t \in Threads :
          (pc[t] = "idle" /\ pc'[t] # "idle") =>
            (pc'[t] = "lock" <=>
               \/ acc'[t] \in {"log", "error"}
               \/ tracing[lg'[t]]
               \/ level[lg'[t]] <= AccLevel(acc'[t]))]_vars
  /\ [](\A w \in inflight :
          (~sub[w[1]] /\ acc[w[1]] # "log") =>
            /\ HasLabel(w[2], acc[w[1]])
            /\ Tail(w[2]) = OwnFields(w[1]))

C12_Witness ==
  \E t, u \in Threads :
    /\ t # u /\ pc[t] = "idle"
    /\ pc[u] = "inwrite" /\ lg[u] = "root" /\ acc[u] = "debug" /\ ~sub[u]
    /\ emutex["root"] /\ level["root"] = Warning

\* C13: while the levels change under the logging threads, every sink write
\* is one whole record - '{', the label of the accessor called, the fields
\* of that call, '}' and one newline, with no comma in front of '}' - and a
\* call that is over made one write if it was admitted and none otherwise.
C13_LevelChangeKeepsRecordsWhole ==
  /\ \A w \in inflight :
       /\ Head(w[2]) = OPEN
       /\ HasLabel(w[2], acc[w[1]])
       /\ w[2] = <<OPEN>> \o OwnFields(w[1])
       /\ Len(w[2]) >= 4
       /\ w[2][Len(w[2]) - 2] # SEP
       /\ w[2][Len(w[2]) - 1] = CLOSE
       /\ Last(w[2]) = NL
       /\ CountNL(w[2]) = 1
  /\ \A t \in Threads :
       /\ nwrites[t] <= 1
       /\ pc[t] = "done" => nwrites[t] = nlocks[t]

C13_Witness ==
  \E t, u \in Threads :
    /\ t # u /\ lg[t] = "root" /\ lg[u] = "root"
    /\ pc[u] = "inwrite" /\ acc[u] = "debug" /\ msg[u] = "" /\ nprops[u] = 1
    /\ level["root"] = Warning
    /\ pc[t] = "chain" /\ acc[t] = "debug" /\ ev[t] = "nil"

\* the steps of a derivation, seen from outside
WithStep(t) == il[t] = NoIL /\ il'[t] # NoIL
LoggerStep(t) == il[t] # NoIL /\ il'[t] = NoIL
Changed(f, g) == {l \in AllLoggers : f[l] # g[l]}

\* C14: With() takes the level the parent has at that moment, Logger()
\* gives it to the new Logger whatever the parent's level has become, a
\* derivation changes no other Logger's level, and every other step changes
\* the level of one Logger at most; a gate check of a derived Logger decides
\* by its own level.
C14_LevelCopiedNotLinked ==
  [][\A t \in Threads :
       /\ WithStep(t) =>
            (il'[t].level = level[il'[t].from] /\ level' = level)
       /\ LoggerStep(t) =>
            /\ level'[Child(il[t].from)] = il[t].level
            /\ Changed(level', level) \subseteq {Child(il[t].from)}
       /\ ~LoggerStep(t) => Cardinality(Changed(level', level)) <= 1
       /\ (pc[t] = "idle" /\ pc'[t] # "idle") =>
            (pc'[t] = "lock" <=>
               (tracing[lg'[t]] \/ level[lg'[t]] <= AccLevel(acc'[t])))]_vars

C14_Witness ==
  /\ il["t1"] = NoIL
  /\ branch["child"] = Field("with", "root")
  /\ level["root"] = Warning /\ level["child"] = Debug /\ ~tracing["child"]
  /\ lg["t1"] = "child" /\ acc["t1"] = "debug" /\ pc["t1"] = "inwrite"

\* C15: a Logger derived from a parent that is tracing is tracing (the
\* parent's flag is the same at With() and at Logger()), and a store of the
\* tracing flag changes the flag of no other Logger.
C15_DerivedAfterSetTracingTraces ==
  [][\A t \in Threads :
       /\ (LoggerStep(t) /\ tracing[il[t].from]) => tracing'[Child(il[t].from)]
       /\ ~LoggerStep(t) => Cardinality(Changed(tracing', tracing)) <= 1]_vars

IsPrefix(a, b) == Len(a) <= Len(b) /\ SubSeq(b, 1, Len(a)) = a

\* C16: With() copies the parent's branch and leaves it alone, a property
\* added to the Intermediate extends the copy only, Logger() gives the new
\* Logger the parent's bytes followed by the added properties and changes
\* no other branch, no other step changes any branch, and every record
\* carries the branch of its Logger.
C16_ParentBranchNeverChanges ==
  /\ [][\A t \in Threads :
          /\ WithStep(t) =>
               (il'[t].branch = branch[il'[t].from] /\ branch' = branch)
          /\ (il[t] # NoIL /\ il'[t] # NoIL) =>
               (IsPrefix(il[t].branch, il'[t].branch) /\ branch' = branch)
          /\ LoggerStep(t) =>
               /\ branch'[Child(il[t].from)] = il[t].branch
               /\ IsPrefix(branch[il[t].from], branch'[Child(il[t].from)])
               /\ Changed(branch', branch) \subseteq {Child(il[t].from)}
          /\ (il' = il) => branch' = branch]_vars
  /\ [](\A w \in inflight : w[2] = <<OPEN>> \o OwnFields(w[1]))

C16_Witness ==
  /\ il["t1"] # NoIL
  /\ il["t1"].from = "child"
  /\ branch["child"] = Field("with", "root")
  /\ il["t1"].branch = Field("with", "root") \o Field("with", "child")
  /\ branch["grand"] = Field("module", "svc") \o Field("with", "child")

\* the place of a field in a record: time stamp, level label, the
\* properties of the first derivation (A), those of the second (B), the
\* properties of the call, the message
Rank(f) ==
  CASE f[1] = "time" -> 1
    [] f[1] = "level" -> 2
    [] f[1] = "module" -> 3
    [] f = <<"with", "root">> -> 3
    [] f = <<"with", "child">> -> 4
    [] f[1] = "prop" -> 5
    [] OTHER -> 6

IsField(x) == x[1] # "byte"
FieldsOf(buf) == SelectSeq(buf, IsField)
CountKind(buf, k) == Cardinality({i \in 1..Len(buf) : buf[i][1] = k})

\* C17: in every record the fields stand in the order time stamp, level
\* label, A, B, call-site properties, message; the stamp is there iff the
\* Logger has a time formatter, the label and every property of the branch
\* and of the call are there once, and the message, if any, is last.
C17_FieldOrder ==
  \A w \in inflight :
    LET t == w[1]
        f == FieldsOf(w[2]) IN
    /\ \A i, j \in 1..Len(f) : i < j => Rank(f[i]) <= Rank(f[j])
    /\ CountKind(w[2], "time") = IF timeFormatter[lg[t]] = "stamp" THEN 1 ELSE 0
    /\ CountKind(w[2], "level") = 1
    /\ CountKind(w[2], "module") + CountKind(w[2], "with") = Len(branch[lg[t]]) \div 2
    /\ CountKind(w[2], "prop") = nprops[t]
    /\ CountKind(w[2], "message") = IF msg[t] = "" THEN 0 ELSE 1
    /\ msg[t] # "" => w[2][Len(w[2]) - 2] = <<"message", msg[t]>>

C17_Witness ==
  \E w \in inflight :
    /\ lg[w[1]] = "grand"
    /\ w[2] = <<OPEN>> \o Field("time", "now") \o Field("level", "debug")
                \o Field("with", "root") \o Field("with", "child")
                \o Field("prop", w[1]) \o << <<"message", "m">>, CLOSE, NL >>

\* C18: when Write of the io.Writer returned an error, Msg returns the
\* error, Write was called once, the scratch buffer is the one byte '{',
\* nothing is kept for a later write and both mutexes are free.
C18_SinkErrorReturnedOnce ==
  \A t \in Threads :
    (pc[t] = "done" /\ out[t] = "err" /\ ~sub[t]) =>
      /\ ret[t] = "err" /\ pval[t] = "none"
      /\ nwrites[t] = 1
      /\ scratch[lg[t]] = <<OPEN>>
      /\ inflight = {}
      /\ ~emutex[lg[t]] /\ ~omutex
      /\ nunlocks[t] = 1

\* C18 without the first byte of the buffer: the buffer is one byte long
C18_SinkErrorReturnedOnceButPrefix ==
  \A t \in Threads :
    (pc[t] = "done" /\ out[t] = "err" /\ ~sub[t]) =>
      /\ ret[t] = "err" /\ pval[t] = "none"
      /\ nwrites[t] = 1
      /\ Len(scratch[lg[t]]) = 1
      /\ inflight = {}
      /\ ~emutex[lg[t]] /\ ~omutex
      /\ nunlocks[t] = 1

\* C19: a panic of the io.Writer reaches the caller with the value the
\* io.Writer raised; Write was called once for the call, the buffer keeps
\* nothing of the record, and every later write carries the fields of its
\* own call only.
C19_SinkPanicPropagates ==
  /\ \A t \in Threads :
       out[t] = "panic" =>
         /\ pc[t] = "done"
         /\ ret[t] = "panic" /\ pval[t] = "sink"
         /\ nwrites[t] = 1
         /\ Len(scratch[lg[t]]) = 1
         /\ inflight = {}
  /\ \A w \in inflight :
       Tail(w[2]) = IF sub[w[1]] THEN SubstituteFields ELSE OwnFields(w[1])

C19_Witness ==
  \E t \in Threads :
    /\ pc[t] = "done" /\ out[t] = "panic" /\ ~sub[t]
    /\ acc[t] = "warning" /\ msg[t] = "m" /\ ret[t] = "panic"

\* C20: a call whose time formatter panicked ends with a nil error of Msg
\* and no panic whenever the io.Writer did not panic, also when Write of
\* the substitute record returned an error; the caller's chain runs on the
\* nil Event.
C20_FormatterFaultNeverReturned ==
  \A t \in Threads :
    (sub[t] /\ out[t] \in {"ok", "err"}) =>
      /\ pc[t] \in {"chain", "done"}
      /\ ev[t] = "nil"
      /\ pval[t] = "none"
      /\ pc[t] = "done" => ret[t] = "nil"

C20_Witness ==
  \E t \in Threads :
    /\ pc[t] = "done" /\ sub[t] /\ out[t] = "err"
    /\ ret[t] = "nil" /\ pval[t] = "none" /\ nwrites[t] = 1

\* C21 as claimed: the record written in place of one whose time formatter
\* panicked carries the level label of Error().
C21_SubstituteHasErrorLabel ==
  \A w \in inflight : sub[w[1]] => HasLabel(w[2], "error")

\* C21 amended: the record written in place of one whose time formatter
\* panicked carries no level label, whatever accessor was called: its
\* fields are the "error" property and the fixed message.
C21_SubstituteHasNoLabel ==
  \A w \in inflight :
    sub[w[1]] =>
      /\ CountKind(w[2], "level") = 0
      /\ FieldsOf(w[2]) = << <<"error", "time-formatter-boom!">>,
                             <<"message", "panic when time formatter invoked">> >>

C21_Witness ==
  \E w \in inflight :
    /\ sub[w[1]] /\ acc[w[1]] = "error" /\ pc[w[1]] = "inwrite"
    /\ timeFormatter[lg[w[1]]] = "panic"

\* C22: while a thread has the Event of one Logger open between its
\* accessor and its Msg, every step of a call on another Logger can be
\* taken: the lock of its Event, its property calls and Msg, the write to
\* the shared output and the return.
C22_LocksArePerLogger ==
  \A t, u \in Threads :
    (t # u /\ pc[t] = "chain" /\ ev[t] = "open" /\ lg[u] # lg[t] /\ ~fatal) =>
      /\ pc[u] = "lock" => ENABLED EventOpen(u)
      /\ pc[u] = "chain" => ENABLED Msg(u, "m")
      /\ pc[u] = "write" => ENABLED OutputWrite(u)
      /\ pc[u] = "inwrite" => ENABLED WriteReturn(u, "ok")
      /\ pc[u] = "done" => ENABLED Return(u)

C22_Witness ==
  \E t, u \in Threads :
    /\ t # u /\ lg[t] = "root" /\ lg[u] = "child"
    /\ pc[t] = "chain" /\ ev[t] = "open" /\ nprops[t] = 1 /\ emutex["root"]
    /\ pc[u] = "inwrite" /\ ~sub[u] /\ emutex["child"]

\* the level of the Writer admitted the level it emits at when Write
\* checked it
WriterAdmitted(t) ==
  tracing["writer"] \/ seen[t] <= AccLevel(acc[t])

C25_WriterSinkPanicPropagates ==
  \A t \in Threads :
    (pc[t] = "wdone" /\ out[t] = "panic") =>
      /\ ret[t] = "panic" /\ pval[t] = "sink"
      /\ ~emutex["writer"] /\ ~omutex
      /\ ~fatal


\* C26: the time formatter of a Logger runs in the step that locks the
\* Event for an admitted call, once, on the buffer cut to its first byte,
\* so its output is the first field of the record, before the level
\* label, the branch and every property; an admitted call on a Logger
\* without a formatter and a filtered call run none.
C26_FormatterOncePerAdmittedCall ==
  [][\A t \in Threads :
       LET l == lg[t] IN
       /\ (nformats'[t] > nformats[t]) =>
            /\ pc[t] = "lock" /\ timeFormatter[l] # "nil"
            /\ nformats[t] = 0 /\ nformats'[t] = 1
            /\ ~emutex[l] /\ emutex'[l]
            /\ Len(scratch[l]) = 1
       /\ (pc[t] = "lock" /\ pc'[t] # "lock") =>
            /\ nformats'[t] = IF timeFormatter[l] = "nil" THEN 0 ELSE 1
            /\ ev'[t] = "open" =>
                 /\ CountKind(scratch'[l], "time") = nformats'[t]
                 /\ (nformats'[t] = 1) => SubSeq(scratch'[l], 2, 3) =
                                            Field("time", "now")
                 /\ acc[t] # "log" => HasLabel(scratch'[l], acc[t])
       /\ (pc[t] = "idle" /\ pc'[t] = "chain") =>
            /\ nformats'[t] = 0 /\ scratch' = scratch /\ emutex' = emutex
       /\ (pc[t] \notin {"lock", "done"}) => nformats'[t] = nformats[t]
       /\ \A w \in inflight' \ inflight :
            (w[1] = t /\ ~sub[t]) =>
              /\ CountKind(w[2], "time") = nformats[t]
              /\ (nformats[t] = 1) => w[2][2] = <<"time", "now">>
    ]_vars

C26_Witness ==
  \E t \in Threads :
    /\ pc[t] = "chain" /\ ev[t] = "open" /\ lg[t] = "child"
    /\ acc[t] = "info" /\ nformats[t] = 1 /\ nprops[t] = 1
    /\ emutex["child"]
    /\ scratch["child"] = <<OPEN>> \o Field("time", "now")
                            \o Field("level", "info") \o branch["child"]
                            \o PropBytes(t, 1)

\* C27: while an Event of a Logger is open, from the accessor's lock to the
\* end of Msg, no SetTimeFormatter on that Logger can complete, and the
\* record under construction is stamped by the formatter the Logger holds
\* now: a record opened after SetTimeFormatter returned uses the new
\* formatter, and none is replaced under an open record.
C27_SetTimeFormatterWaitsForEvent ==
  \A t \in Threads :
    HoldsOpen(t) =>
      LET l == lg[t] IN
      /\ emutex[l]
      /\ \A u \in Threads, f \in TimeFormatters :
           ~ENABLED SetTimeFormatter(u, l, f)
      /\ sub[t] <=> (timeFormatter[l] = "panic")
      /\ nformats[t] = IF timeFormatter[l] = "nil" THEN 0 ELSE 1
      /\ (pc[t] = "chain") =>
           (CountKind(scratch[l], "time") = 1 <=> timeFormatter[l] = "stamp")
      /\ \A w \in inflight :
           (w[1] = t) =>
             (CountKind(w[2], "time") = 1 <=> timeFormatter[l] = "stamp")

C27_Witness ==
  /\ pc["t1"] = "inwrite" /\ lg["t1"] = "root" /\ ~sub["t1"]
  /\ timeFormatter["root"] = "stamp" /\ timeFormatter["child"] = "nil"
  /\ pc["t2"] = "idle"
  /\ \E w \in inflight : w[1] = "t1" /\ w[2][2] = <<"time", "now">>
  /\ ENABLED SetTimeFormatter("t2", "child", "stamp")
  /\ ~ENABLED SetTimeFormatter("t2", "root", "nil")

\* C28: while a Write of the io.Writer is in progress no SetWriter can
\* complete, so the io.Writer a record was handed to is still the one the
\* output holds when its Write returns; a record handed to the sink after
\* SetWriter(w) returned is handed to w; and a record is in flight to one
\* io.Writer only.
C28_SetWriterWaitsForWrite ==
  /\ Cardinality(inflight) <= 1
  /\ \A w \in inflight :
       /\ omutex
       /\ w[3] = sink
       /\ \A u \in Threads, x \in Sinks : ~ENABLED SetWriter(u, x)
  /\ \A t \in Threads : nwrites[t] <= 1

C28_Witness ==
  /\ sink = "w2"
  /\ pc["t1"] = "inwrite" /\ lg["t1"] = "child"
  /\ pc["t2"] = "idle"
  /\ inflight = {<<"t1", scratch["child"], "w2">>}
  /\ ~ENABLED SetWriter("t2", "w1")

\* C29: Msg("") on an open Event puts the closing '}' in the place of the
\* separator that ends the last appended field and appends the newline, so
\* the record has no "message" field; Msg(s) with s # "" appends the
\* "message" field, the closing '}' and the newline.
C29_MsgClosesRecord ==
  [][\A t \in Threads :
       (pc[t] = "chain" /\ ev[t] = "open" /\ pc'[t] = "write") =>
         LET b == scratch[lg[t]]
             r == scratch'[lg[t]] IN
         IF msg'[t] = ""
           THEN /\ Last(b) = SEP
                /\ r = SubSeq(b, 1, Len(b) - 1) \o <<CLOSE, NL>>
                /\ CountKind(r, "message") = 0
           ELSE r = b \o << <<"message", msg'[t]>>, CLOSE, NL >>
    ]_vars

\* the same for every Msg but Msg("") on an Event that holds no field
C29_MsgClosesRecordGivenField ==
  [][\A t \in Threads :
       (pc[t] = "chain" /\ ev[t] = "open" /\ pc'[t] = "write") =>
         LET b == scratch[lg[t]]
             r == scratch'[lg[t]] IN
         IF msg'[t] = ""
           THEN Len(b) > 1 =>
                  /\ Last(b) = SEP
                  /\ r = SubSeq(b, 1, Len(b) - 1) \o <<CLOSE, NL>>
                  /\ CountKind(r, "message") = 0
           ELSE r = b \o << <<"message", msg'[t]>>, CLOSE, NL >>
    ]_vars

\* C30: Log() returns an open Event whatever the level and the tracing flag
\* of the Logger (its time formatter not panicking), and its record has no
\* "level" field: after the first byte it holds the time stamp, when the
\* Logger has a formatter, the branch of the Logger, the properties of the
\* call and the message.
C30_LogIsUngatedAndUnlabelled ==
  \A t \in Threads :
    (acc[t] = "log" /\ pc[t] \notin {"idle", "lock"} /\ ~sub[t]) =>
      LET l == lg[t]
          stamp == IF timeFormatter[l] = "stamp" THEN Field("time", "now") ELSE <<>>
      IN
      /\ pc[t] = "chain" => ev[t] = "open"
      /\ nlocks[t] = 1
      /\ pc[t] = "chain" =>
           /\ Tail(scratch[l]) = stamp \o branch[l] \o PropBytes(t, nprops[t])
           /\ CountKind(scratch[l], "level") = 0
      /\ \A w \in inflight :
           (w[1] = t) =>
             /\ CountKind(w[2], "level") = 0
             /\ Tail(w[2]) = OwnFields(t)
      /\ (pc[t] = "done" /\ pval[t] = "none") => nwrites[t] = 1

C30_Witness ==
  \E t \in Threads :
    /\ acc[t] = "log" /\ lg[t] = "root" /\ pc[t] = "inwrite"
    /\ level["root"] = Error /\ ~tracing["root"]
    /\ timeFormatter["root"] = "stamp"
    /\ inflight = {<<t, <<OPEN>> \o Field("time", "now") \o Field("prop", t)
                          \o << <<"message", "m">>, CLOSE, NL >>, sink>>}

\* C31: on the Logger New returned, while no level has been set, a
\* completed Debug, Verbose or Info call has written nothing and a
\* completed Warning or Error call has made one sink write.
C31_NewLoggerIsAtWarning ==
  /\ level["root"] = Warning
  /\ \A t \in Threads :
       (pc[t] = "done" /\ lg[t] = "root") =>
         /\ acc[t] \in {"debug", "verbose", "info"} =>
              (nwrites[t] = 0 /\ ev[t] = "nil" /\ nlocks[t] = 0)
         /\ acc[t] \in {"warning", "error"} => nwrites[t] = 1

C31_Witness ==
  \E t \in Threads :
    /\ pc[t] = "done" /\ acc[t] = "warning" /\ nwrites[t] = 1
    /\ out[t] = "ok" /\ msg[t] = "m" /\ ~sub[t]

\* C32: an event made by a Tracer or handed on by one is dropped by no
\* Filter under it, whatever the level of the Filter, and the Base writes
\* it; an event no Tracer has touched is dropped by the first Filter on its
\* way whose level is above the level of the event.
C32_TracerBypassesFilters ==
  /\ cev.traced => cev.st \in {"moving", "written"}
  /\ (cev.st = "moving" /\ cev.at > 0 /\ chain[cev.at].kind = "filter") =>
       IF cev.traced
         THEN ENABLED (ChainLog /\ cev'.st = "moving")
         ELSE (chain[cev.at].level > cev.lv) =>
                ENABLED (ChainLog /\ cev'.st = "dropped")

\* the same but for the write by the Base: no Filter drops an event a
\* Tracer has touched, and the Base writes it unless its template holds
\* {level}
C32_TracerBypassesFiltersToBase ==
  /\ cev.traced => cev.st \in {"moving", "written", "panic"}
  /\ (cev.traced /\ cev.st = "panic") => template = "level"
  /\ (cev.st = "moving" /\ cev.at > 0 /\ chain[cev.at].kind = "filter") =>
       IF cev.traced
         THEN ENABLED (ChainLog /\ cev'.st = "moving")
         ELSE (chain[cev.at].level > cev.lv) =>
                ENABLED (ChainLog /\ cev'.st = "dropped")

\* C39: every event that comes to Base.log has a level Level.String is
\* defined for, and no call on the chain panics, whatever the template of
\* the Base.
C39_BaseLevelHasString ==
  /\ (cev.st = "moving" /\ cev.at = 0) => WrapperLevelString(cev.level) # "panic"
  /\ cev.st # "panic"

\* C33: the bytes of every sink write begin with '{', end with '}' and one
\* newline after it, and hold no other newline, whatever the accessor, the
\* time formatter, the branch, the properties and the message.
C33_RecordIsOneBracedLine ==
  \A w \in inflight :
    LET r == w[2] IN
    /\ r[1] = OPEN
    /\ Len(r) >= 3
    /\ SubSeq(r, Len(r) - 1, Len(r)) = <<CLOSE, NL>>
    /\ \A i \in 1..(Len(r) - 1) : r[i] # NL

\* the same without the first byte: every sink write ends with '}' and
\* the only newline of the bytes
C33_RecordIsOneClosedLine ==
  \A w \in inflight :
    LET r == w[2] IN
    /\ Len(r) >= 2
    /\ SubSeq(r, Len(r) - 1, Len(r)) = <<CLOSE, NL>>
    /\ \A i \in 1..(Len(r) - 1) : r[i] # NL

\* C34: a Write that locked the Event mutex of the Writer has unlocked it
\* once when it ends, on the normal return, after a sink error, after a
\* sink panic and after a panic of the time formatter; it never unlocks a
\* mutex that is free, and the mutex is free for the next Write.
C34_WriterUnlocksOnce ==
  /\ ~fatal
  /\ \A t \in Threads :
       (pc[t] = "wdone" /\ nlocks[t] = 1) =>
         /\ nunlocks[t] = 1
         /\ ~emutex["writer"]
         /\ ENABLED WriterDone(t)

\* the same for the Writes whose time formatter did not panic
C34_WriterUnlocksOnceUnlessFormatterPanics ==
  /\ fatal => \E t \in Threads : sub[t] /\ nunlocks[t] = 2
  /\ \A t \in Threads :
       (pc[t] = "wdone" /\ nlocks[t] = 1 /\ ~sub[t]) =>
         /\ nunlocks[t] = 1
         /\ ~emutex["writer"]
         /\ ENABLED WriterDone(t)

\* C35: a thread that holds the output mutex holds the Event mutex of its
\* Logger and waits for no mutex, and a thread that waits for an Event
\* mutex holds no mutex; and when every open Event is completed by Msg and
\* the sink and the time formatter return, every call in progress (an
\* accessor, Msg, SetTimeFormatter, SetWriter) returns in the end; With
\* and NewWriter wait for neither mutex.
C35_LockOrderAndProgress ==
  /\ [](\A t \in Threads :
          /\ pc[t] = "inwrite" => (omutex /\ emutex[lg[t]])
          /\ pc[t] \in {"lock", "stf", "sw"} =>
               \A w \in inflight : w[1] # t)
  /\ [](omutex => inflight # {})
  /\ [](\A t \in Threads, l \in Loggers :
          pc[t] = "idle" =>
            (ENABLED With(t, l) /\ ENABLED NewWriter(t, l, "info")))
  /\ \A t \in Threads : (pc[t] # "idle") ~> (pc[t] = "idle")

C35_Witness ==
  /\ pc["t1"] = "inwrite" /\ lg["t1"] = "root"
  /\ pc["t2"] = "stf" /\ lg["t2"] = "root"
  /\ emutex["root"] /\ omutex

\* C36: every Logger made by NewBranchWithString emits the branch of its
\* parent followed by its own property, and goes on doing so while its
\* siblings and their children are derived, whatever room the arrays of
\* the branches have to spare.
C36_SiblingBranchesAreApart ==
  \A l \in BLoggers : BranchBytes(l) = expect[l]

\* the part that holds: the Logger with no sibling keeps its branch while
\* Loggers are derived from it, and each derived Logger has it as the prefix
\* of its own
C36_LoneParentBranchKept ==
  /\ BranchBytes("top") = <<>>
  /\ BranchBytes("p") = expect["p"]
  /\ \A c \in {"c1", "c2"} :
       bref[c] # NilSlice => IsPrefix(expect["p"], BranchBytes(c))

\* C37: no thread is in With() between its RLock and its RUnlock, where it
\* reads the time formatter of a Logger, while another thread is in
\* setTimeFormatter on that Logger between Lock and Unlock, where it
\* stores the formatter.
C37_FormatterReadExcludesStore ==
  \A t, u \in Threads :
    ~(pc[t] = "with" /\ pc[u] = "stfstore" /\ lg[t] = lg[u])

\* C38: NewWriter gives the Writer the level the Logger has then; no later
\* step that changes the Logger's level changes the Writer's level or the
\* level it emits at, no step that changes the Writer's level changes the
\* Logger's, and a Write of a non-empty buf goes on to the sink exactly
\* when the Writer's own level admits the level it emits at.
C38_WriterKeepsOwnThreshold ==
  [][/\ \A e \in Accessors \ {"log"} :
          NewWriter("t1", "root", e) => level'["writer"] = level["root"]
     /\ level'["root"] # level["root"] =>
          (level'["writer"] = level["writer"] /\ emitLevel' = emitLevel)
     /\ level'["writer"] # level["writer"] => level'["root"] = level["root"]
     /\ \A t \in Threads :
          (pc[t] = "idle" /\ pc'[t] \in {"wlock", "wdone"} /\ msg'[t] # "") =>
            ((pc'[t] = "wlock") <=>
               (tracing["writer"] \/ level["writer"] <= AccLevel(emitLevel)))]_vars

C38_Witness ==
  /\ pc["t1"] = "wdone" /\ nwrites["t1"] = 1 /\ msg["t1"] = "xy"
  /\ acc["t1"] = "info" /\ level["writer"] = Info /\ level["root"] = Error

\* the labels of the five levels
FiveLabels == {"debug", "verbose", "info", "warning", "error"}

\* Level.String gives one of the five labels for a level of the five, and
\* panics for any other value
C40_LevelStringPanicsOutsideFive ==
  \A t \in Threads :
    pc[t] = "sdone" =>
      IF seen[t] \in Levels
        THEN msg[t] \in FiveLabels /\ ret[t] = "nil"
        ELSE ret[t] = "panic" /\ msg[t] = ""

\* C40: a label is given for the five levels only: Level.String panics
\* for any other value, and no record is handed to the sink whose level
\* property is not one of the five labels.
C40_OnlyFiveLevelsHaveLabels ==
  /\ C40_LevelStringPanicsOutsideFive
  /\ \A w \in inflight :
       \A i \in 1..Len(w[2]) :
         (Len(w[2][i]) = 2 /\ w[2][i][1] = "level") => w[2][i][2] \in FiveLabels
====
